---------------------------- MODULE Spec2Model ----------------------------
(***************************************************************************)
(* The match-and-batch pipeline of the Bitrix24 mass updater               *)
(* (server/routes.ts, server/storage.ts), with the in-memory store         *)
(* (MemStorage), whose operations complete without a real suspension.      *)
(*                                                                         *)
(* Spec       the pipeline of an upload session: upload, process request,  *)
(*            matching pass, preview edit, execute request, execution pass *)
(* SpecMatch  the matching passes requested on one uploaded session, with  *)
(*            every outcome of a search                                    *)
(* SpecSelect preview edits and one execution request over two sessions    *)
(*            that have been matched                                       *)
(* SpecBatch  an execution pass over a session with many matched entries   *)
(*            (the batch size is the program's 50)                         *)
(* SpecSelectLive  SpecSelect with the execution pass weakly fair          *)
(* SpecUndo   preview edits, an execution and undo requests over the two   *)
(*            matched sessions                                             *)
(* SpecDownload  report downloads around a review and an execution         *)
(* SpecAuth   one session through the pipeline, each request arriving      *)
(*            with any credentials, under each deployment                  *)
(* SpecPassLive  matching passes one after the other, weakly fair         *)
(* SpecReExec execute requests one after the other on matched sessions     *)
(* SpecFile   the file-backed store (FileStorage) under operations of      *)
(*            different tasks that interleave                              *)
(* SpecRL     rateLimiter.wait / callBitrixAPI under concurrent callers,   *)
(*            with a millisecond clock                                     *)
(*                                                                         *)
(* The entities a search returns have the shape the matcher reads (.id and *)
(* .fields).  The store's operations do not throw, so the outer catch      *)
(* blocks of the two background passes, which set the status 'error', are  *)
(* not entered and have no action.                                         *)
(***************************************************************************)
EXTENDS Integers, Sequences, FiniteSets, TLC

VARIABLES
  sessions,          \* MemStorage.sessions: sequence of sessions, id = index
  recordResults,     \* MemStorage.recordResults in insertion order, id = index
  executionBatches,  \* MemStorage.executionBatches in insertion order
  procTasks,         \* activations of processFileInBackground
  execTasks,         \* activations of executeUpdatesInBackground
  edits,             \* number of preview edit requests served
  now,               \* Date.now(), in ms
  lastCall,          \* rateLimiter.lastCall
  callers,           \* activations of callBitrixAPI (SpecRL)
  starts,            \* history: the times at which external calls started
  undoTasks,         \* activations of revertChangesInBackground
  calls,             \* history: the external calls the latest step issued
  reply,             \* the HTTP response of the latest request served
  env,               \* process.env: APP_SECRET_TOKEN and ALLOWED_DOMAINS
  request,           \* the latest request that reached validateSecurity
  sessionsFile,      \* FileStorage: the sessions of data/sessions.json
  resultsFile,       \* FileStorage: the entries of data/results.json, in key order
  fileOps            \* FileStorage operations started, each with what it read

vars == <<sessions, recordResults, executionBatches, procTasks, execTasks,
          edits, now, lastCall, callers, starts, undoTasks, calls, reply,
          env, request, sessionsFile, resultsFile, fileOps>>

storeVars == <<sessions, recordResults, executionBatches>>
rlVars == <<now, lastCall, callers, starts>>
auxVars == <<undoTasks, calls, reply, env>>
fileVars == <<sessionsFile, resultsFile, fileOps>>

----------------------------------------------------------------------------
(* Bounds of the model *)

MaxSessions == 1     \* upload requests served
MaxTasks == 2        \* background passes started (process + execute), Spec
MaxEdits == 1        \* preview edit requests served
MaxPasses == 1       \* matching passes started, SpecMatch
MaxRows == 101       \* rows of the uploaded file, SpecBatch
MaxUndos == 1        \* undo requests served
MaxFileOps == 2      \* FileStorage operations started, SpecFile
MaxExecs == 2        \* execute requests served, SpecReExec
NumCallers == 2      \* concurrent callers of callBitrixAPI, SpecRL
StartTime == 1000    \* Date.now() when the server starts, SpecRL
MaxTime == 2200      \* the clock stops here, SpecRL
TickMs == 100        \* clock granularity, SpecRL

----------------------------------------------------------------------------
(* JavaScript values *)

\* null and undefined (the code never tells them apart where it matters)
Null == "null"

\* no request has been served yet
NoReply == [status |-> 0, body |-> Null]
NoRequest ==
  [op |-> Null, token |-> Null, xAuthToken |-> Null, domain |-> Null,
   xBitrixDomain |-> Null, flip |-> 0]

\* a configured deployment: a secret and an allow-list of one domain
DefaultEnv == [secretToken |-> "s3cret", allowedDomains |-> <<"d1">>]

\* !v for the string-or-null values of the model
Falsy(v) == v = "" \/ v = Null

\* v || d
OrElse(v, d) == IF Falsy(v) THEN d ELSE v

\* row[col] (undefined for a column the row does not have)
Get(row, col) == IF col \in DOMAIN row THEN row[col] ELSE Null

\* The header order of the uploaded sheet: Object.keys(row) follows it
ColumnOrder == <<"EMAIL", "PHONE", "NAME">>

ObjectKeys(row) == SelectSeq(ColumnOrder, LAMBDA c : c \in DOMAIN row)

\* array.includes
Includes(seq, x) == \E j \in 1..Len(seq) : seq[j] = x

----------------------------------------------------------------------------
(* Inputs: the uploaded file, the request parameters, the CRM's answers *)

\* parseFile's result: row 0 has an empty first key, row 1 has both keys
FileA ==
  << [EMAIL |-> "", PHONE |-> "p0", NAME |-> "New"],
     [EMAIL |-> "e1", PHONE |-> "p1", NAME |-> ""] >>


\* keyColumns of a process request (configurationSchema: at least one)
KeyColumnChoices == {<<"EMAIL", "PHONE">>, <<"EMAIL">>}

TargetTypes == {"contacts", "both"}

\* CRM entities as the matcher reads them: .id and .fields[field]
E1 == [id |-> "7", fields |-> [EMAIL |-> "e1", PHONE |-> "p9", NAME |-> "Old"]]
E2 == [id |-> "C9", fields |-> [EMAIL |-> "e1", PHONE |-> Null, NAME |-> Null]]

\* What fetch() can bring back: a non-success HTTP status, a body with a
\* result list, a body without one (an application-level error)
HttpResponses ==
  { [ok |-> FALSE, hasResult |-> FALSE, result |-> <<>>],
    [ok |-> TRUE, hasResult |-> FALSE, result |-> <<>>],
    [ok |-> TRUE, hasResult |-> TRUE, result |-> <<>>],
    [ok |-> TRUE, hasResult |-> TRUE, result |-> <<E1>>],
    [ok |-> TRUE, hasResult |-> TRUE, result |-> <<E2, E1>>] }

----------------------------------------------------------------------------
(* callBitrixAPI and searchInBitrix24 *)

\* callBitrixAPI after the rate limiter: throws on !response.ok, otherwise
\* returns the parsed body whatever it holds
callBitrixAPI(resp) ==
  IF ~resp.ok
    THEN [thrown |-> TRUE, hasResult |-> FALSE, result |-> <<>>]
    ELSE [thrown |-> FALSE, hasResult |-> resp.hasResult, result |-> resp.result]

\* x.result || []
ResultOrEmpty(ret) == IF ret.hasResult THEN ret.result ELSE <<>>

\* results.length === 0 -> null; > 1 -> first result, isDuplicate; else first
PickResult(results) ==
  IF Len(results) = 0
    THEN [thrown |-> FALSE, found |-> FALSE, entity |-> E1, isDuplicate |-> FALSE,
          n |-> 0]
    ELSE [thrown |-> FALSE, found |-> TRUE, entity |-> results[1],
          isDuplicate |-> Len(results) > 1, n |-> Len(results)]

SearchThrown ==
  [thrown |-> TRUE, found |-> FALSE, entity |-> E1, isDuplicate |-> FALSE, n |-> 0]

\* searchInBitrix24: with 'both' each of the two calls has a catch of its own;
\* otherwise the call's exception leaves the function
searchInBitrix24(targetType, contactResp, companyResp) ==
  IF targetType = "both"
    THEN LET c1 == callBitrixAPI(contactResp)
             c2 == callBitrixAPI(companyResp)
             r1 == IF c1.thrown THEN <<>> ELSE ResultOrEmpty(c1)
             r2 == IF c2.thrown THEN <<>> ELSE ResultOrEmpty(c2)
         IN PickResult(r1 \o r2)
    ELSE LET c == callBitrixAPI(contactResp)
         IN IF c.thrown THEN SearchThrown ELSE PickResult(ResultOrEmpty(c))

----------------------------------------------------------------------------
(* MemStorage *)

\* createSession
createSession(ss, ins) == Append(ss, ins)

\* updateSessionStatus: nothing when the session does not exist
updateSessionStatus(ss, id, status) ==
  IF id \in DOMAIN ss THEN [ss EXCEPT ![id].status = status] ELSE ss

\* createRecordResult: the stored entry, with the store's defaults
createRecordResult(ins, id) ==
  [id |-> id,
   sessionId |-> ins.sessionId,
   rowIndex |-> ins.rowIndex,
   searchKey |-> ins.searchKey,
   field |-> ins.field,
   newValue |-> ins.newValue,
   action |-> OrElse(ins.action, "update"),
   selected |-> IF ins.selected # Null THEN ins.selected ELSE "true",
   status |-> OrElse(ins.status, "pending"),
   bitrixId |-> OrElse(ins.bitrixId, Null),
   currentValue |-> OrElse(ins.currentValue, Null),
   errorMessage |-> OrElse(ins.errorMessage, Null)]

\* the loop of awaits on createRecordResult, one insert per field, each
\* with a fresh identifier
createAll(rr, inserts) ==
  rr \o [j \in 1..Len(inserts) |-> createRecordResult(inserts[j], Len(rr) + j)]

\* getRecordResults
getRecordResults(rr, sessionId) ==
  SelectSeq(rr, LAMBDA r : r.sessionId = sessionId)

\* getProcessingStatus; progress, (results.length / totalRows) * 100, is
\* kept as the fraction num / den
getProcessingStatus(sessionId) ==
  LET session == sessions[sessionId]
      results == getRecordResults(recordResults, sessionId)
  IN [sessionId |-> sessionId,
      status |-> session.status,
      progress |-> [num |-> Len(results) * 100, den |-> session.totalRows],
      processedRows |-> Len(results),
      totalRows |-> session.totalRows,
      errors |-> Len(SelectSeq(results, LAMBDA r : r.status = "error"))]

----------------------------------------------------------------------------
(* processFileInBackground *)

\* Object.keys(row).filter(key => !keyColumns.includes(key))
fieldsToUpdate(row, keyColumns) ==
  SelectSeq(ObjectKeys(row), LAMBDA key : ~Includes(keyColumns, key))

\* A variant of the skip that lets the empty string through
SkipOnlyAbsent(searchValue) == searchValue = Null

\* if (!searchValue) continue
ShouldSkip(searchValue) == Falsy(searchValue)

\* the insert for one field of a matched row
FoundInsert(sessionId, i, keyCol, searchValue, searchResult, row, field) ==
  [sessionId |-> sessionId,
   rowIndex |-> i,
   searchKey |-> <<keyCol, searchValue>>,
   bitrixId |-> searchResult.entity.id,
   field |-> field,
   currentValue |-> OrElse(Get(searchResult.entity.fields, field), ""),
   newValue |-> OrElse(Get(row, field), ""),
   action |-> "update",
   status |-> "found",
   selected |-> "true",
   errorMessage |-> Null]

\* A variant of the not-found insert that leaves the action to the store
NotFoundInsertNoAction(sessionId, i, keyColumns, row, field) ==
  [sessionId |-> sessionId,
   rowIndex |-> i,
   searchKey |-> [j \in 1..Len(keyColumns) |->
                 <<keyColumns[j], Get(row, keyColumns[j])>>],
   bitrixId |-> Null,
   field |-> field,
   currentValue |-> Null,
   newValue |-> OrElse(Get(row, field), ""),
   action |-> Null,
   status |-> "not_found",
   selected |-> "false",
   errorMessage |-> Null]

\* the insert for one field of a row no key column matched
NotFoundInsert(sessionId, i, keyColumns, row, field) ==
  [sessionId |-> sessionId,
   rowIndex |-> i,
   searchKey |-> [j \in 1..Len(keyColumns) |->
                 <<keyColumns[j], Get(row, keyColumns[j])>>],
   bitrixId |-> Null,
   field |-> field,
   currentValue |-> Null,
   newValue |-> OrElse(Get(row, field), ""),
   action |-> "ignore",
   status |-> "not_found",
   selected |-> "false",
   errorMessage |-> Null]

MapSeq(s, Op(_)) == [j \in 1..Len(s) |-> Op(s[j])]

RowsOf(task) == sessions[task.sessionId].originalData

\* history: the probes of the row the pass works on (or has just finished);
\* it starts afresh with each row's first key column
ProbesSoFar(task) == IF task.k = 1 THEN <<>> ELSE task.probes

\* A variant of the probe's outcome in which a throw ends the pass
AfterProbeAbort(task, out, entry) ==
  IF out.thrown
    THEN [task EXCEPT !.pc = "done", !.probes = Append(@, entry)]
    ELSE IF ~out.found
      THEN [task EXCEPT !.k = @ + 1, !.probes = Append(@, entry)]
      ELSE [task EXCEPT !.i = @ + 1, !.k = 1, !.probes = Append(@, entry)]

\* the task after one probe of the key-column loop: the catch logs and goes
\* on with the next key column, a null result goes on too, a result breaks
AfterProbe(task, out, entry) ==
  IF out.thrown \/ ~out.found
    THEN [task EXCEPT !.k = @ + 1, !.probes = Append(@, entry)]
    ELSE [task EXCEPT !.i = @ + 1, !.k = 1, !.probes = Append(@, entry)]

\* POST /api/process: sets 'processing' and starts the pass
Process(s, targetType, keyColumns) ==
  /\ s \in DOMAIN sessions
  /\ sessions' = updateSessionStatus(sessions, s, "processing")
  /\ procTasks' = Append(procTasks,
       [sessionId |-> s, targetType |-> targetType, keyColumns |-> keyColumns,
        i |-> 0, k |-> 1, pc |-> "loop", probes |-> <<>>])
  /\ UNCHANGED <<recordResults, executionBatches, execTasks, edits>>
  /\ UNCHANGED rlVars
  /\ UNCHANGED auxVars

RECURSIVE NextKey(_, _, _)
\* The key-column loop from position k on: the first key column whose value
\* in the row is not skipped (Len(keyColumns) + 1 when there is none)
NextKey(row, keyColumns, k) ==
  IF k > Len(keyColumns) THEN k
  ELSE IF ShouldSkip(Get(row, keyColumns[k])) THEN NextKey(row, keyColumns, k + 1)
  ELSE k

\* one search of `for (const keyCol of keyColumns)` for row i (after the
\* `continue`s that lead to it), with the answers r1 (contacts, or the single
\* call) and r2 (companies)
ProcProbe(t, r1, r2) ==
  LET task == procTasks[t]
      data == RowsOf(task)
  IN
  /\ task.pc = "loop"
  /\ task.i < Len(data)
  /\ task.targetType # "both" => r2 = r1
  /\ LET row == data[task.i + 1]
         k == NextKey(row, task.keyColumns, task.k)
     IN /\ k <= Len(task.keyColumns)
        /\ LET keyCol == task.keyColumns[k]
               searchValue == Get(row, keyCol)
               out == searchInBitrix24(task.targetType, r1, r2)
               entry == [row |-> task.i, key |-> k, value |-> searchValue,
                         thrown |-> out.thrown, n |-> out.n,
                         first |-> IF out.found THEN out.entity.id ELSE Null]
               inserts == MapSeq(fieldsToUpdate(row, task.keyColumns),
                            LAMBDA f : FoundInsert(task.sessionId, task.i, keyCol,
                                                   searchValue, out, row, f))
           IN /\ procTasks' = [procTasks EXCEPT
                   ![t] = AfterProbe([task EXCEPT !.k = k,
                                        !.probes = ProbesSoFar(task)], out, entry)]
              /\ recordResults' =
                   IF out.thrown \/ ~out.found THEN recordResults
                   ELSE createAll(recordResults, inserts)
  /\ UNCHANGED <<sessions, executionBatches, execTasks, edits>>
  /\ UNCHANGED rlVars
  /\ UNCHANGED request
  /\ UNCHANGED fileVars
  /\ UNCHANGED auxVars

\* `if (!found)`: the key columns are exhausted without a match
ProcNotFound(t) ==
  LET task == procTasks[t]
      data == RowsOf(task)
  IN
  /\ task.pc = "loop"
  /\ task.i < Len(data)
  /\ LET row == data[task.i + 1]
         inserts == MapSeq(fieldsToUpdate(row, task.keyColumns),
                      LAMBDA f : NotFoundInsert(task.sessionId, task.i,
                                                task.keyColumns, row, f))
     IN /\ NextKey(row, task.keyColumns, task.k) > Len(task.keyColumns)
        /\ recordResults' = createAll(recordResults, inserts)
  /\ procTasks' = [procTasks EXCEPT ![t].i = @ + 1, ![t].k = 1,
                                    ![t].probes = ProbesSoFar(task)]
  /\ UNCHANGED <<sessions, executionBatches, execTasks, edits>>
  /\ UNCHANGED rlVars
  /\ UNCHANGED request
  /\ UNCHANGED fileVars
  /\ UNCHANGED auxVars

\* A variant of the end of the pass that leaves the session status alone
ProcDoneSilent(t) ==
  /\ procTasks[t].pc = "loop"
  /\ procTasks[t].i = Len(RowsOf(procTasks[t]))
  /\ procTasks' = [procTasks EXCEPT ![t].pc = "done"]
  /\ UNCHANGED <<sessions, recordResults, executionBatches, execTasks, edits>>
  /\ UNCHANGED rlVars
  /\ UNCHANGED request
  /\ UNCHANGED fileVars
  /\ UNCHANGED auxVars

\* after the row loop: updateSessionStatus(sessionId, 'preview')
ProcDone(t) ==
  LET task == procTasks[t]
  IN
  /\ task.pc = "loop"
  /\ task.i = Len(RowsOf(task))
  /\ sessions' = updateSessionStatus(sessions, task.sessionId, "preview")
  /\ procTasks' = [procTasks EXCEPT ![t].pc = "done"]
  /\ UNCHANGED <<recordResults, executionBatches, execTasks, edits>>
  /\ UNCHANGED rlVars
  /\ UNCHANGED request
  /\ UNCHANGED fileVars
  /\ UNCHANGED auxVars

----------------------------------------------------------------------------
(* POST /api/upload *)

Upload(file, targetType, keyColumns) ==
  /\ Len(sessions) < MaxSessions
  /\ Len(file) > 0
  /\ \A j \in 1..Len(keyColumns) : keyColumns[j] \in DOMAIN file[1]
  /\ sessions' = createSession(sessions,
       [totalRows |-> Len(file), targetType |-> targetType,
        keyColumns |-> keyColumns, originalData |-> file, status |-> "uploaded"])
  /\ UNCHANGED <<recordResults, executionBatches, procTasks, execTasks, edits>>
  /\ UNCHANGED rlVars
  /\ UNCHANGED auxVars

----------------------------------------------------------------------------
(* MemStorage: updates and batches *)

\* { ...result, ...updates }
Merge(obj, updates) ==
  [f \in DOMAIN obj \cup DOMAIN updates |->
     IF f \in DOMAIN updates THEN updates[f] ELSE obj[f]]

\* updateRecordResult: nothing when the entry does not exist
updateRecordResult(rr, id, updates) ==
  IF id \in DOMAIN rr THEN [rr EXCEPT ![id] = Merge(@, updates)] ELSE rr

\* `for (const result of batchResults) await storage.updateRecordResult(...)`
\* with the same updates for each
updateAll(rr, ids, updates) ==
  [j \in DOMAIN rr |->
     IF Includes(ids, j) THEN updateRecordResult(rr, j, updates)[j] ELSE rr[j]]

\* createExecutionBatch: the stored batch, with the store's defaults
createExecutionBatch(ins, id) ==
  [id |-> id,
   sessionId |-> ins.sessionId,
   batchNumber |-> ins.batchNumber,
   recordIds |-> ins.recordIds,
   status |-> OrElse(ins.status, "pending"),
   processedAt |-> Null,
   errors |-> Null]

----------------------------------------------------------------------------
(* PATCH /api/preview/:sessionId *)

\* The data of an update of the review screen
PatchChoices ==
  << [selected |-> "false"],
     [action |-> "ignore"],
     [selected |-> "true", action |-> "update"] >>

\* one update {id, data} handed to storage.updateRecordResults
PreviewEdit(id, data) ==
  /\ edits < MaxEdits
  /\ edits' = edits + 1
  /\ recordResults' = updateRecordResult(recordResults, id, data)
  /\ UNCHANGED <<sessions, executionBatches, procTasks, execTasks>>
  /\ UNCHANGED rlVars
  /\ UNCHANGED auxVars

RECURSIVE updateRecordResults(_, _)
\* updateRecordResults: the updates of one request, applied in order
updateRecordResults(rr, updates) ==
  IF updates = <<>> THEN rr
  ELSE updateRecordResults(
         updateRecordResult(rr, Head(updates).id, Head(updates).data),
         Tail(updates))

\* a request with several updates; the data is stored as it comes
PreviewEdits(updates) ==
  /\ edits < MaxEdits
  /\ edits' = edits + 1
  /\ recordResults' = updateRecordResults(recordResults, updates)
  /\ UNCHANGED <<sessions, executionBatches, procTasks, execTasks>>
  /\ UNCHANGED rlVars
  /\ UNCHANGED auxVars

\* the route with its :sessionId parameter, which the handler reads and
\* does not use
PatchPreview(sessionId, updates) ==
  /\ sessionId \in DOMAIN sessions
  /\ PreviewEdits(updates)

\* getExecutionBatches
getExecutionBatches(eb, sessionId) ==
  SelectSeq(eb, LAMBDA b : b.sessionId = sessionId)

\* getExecutionProgress: the counts of the session's batch records
getExecutionProgress(sessionId) ==
  LET batches == getExecutionBatches(executionBatches, sessionId)
  IN [status |-> sessions[sessionId].status,
      completedBatches |-> Len(SelectSeq(batches, LAMBDA b : b.status = "completed")),
      totalBatches |-> Len(batches)]

\* getExecutionResults: undefined for an unknown session, else the counts
getExecutionResults(sessionId) ==
  IF sessionId \notin DOMAIN sessions THEN Null
  ELSE LET session == sessions[sessionId]
           results == getRecordResults(recordResults, sessionId)
           batches == getExecutionBatches(executionBatches, sessionId)
       IN [sessionId |-> sessionId,
           status |-> session.status,
           totalRows |-> Len(results),
           processedRows |-> Len(results),
           successful |-> Len(SelectSeq(results, LAMBDA r : r.status = "success")),
           failed |-> Len(SelectSeq(results, LAMBDA r : r.status = "error")),
           pending |-> Len(SelectSeq(results, LAMBDA r : r.status = "pending")),
           batches |-> Len(batches),
           completedBatches |->
             Len(SelectSeq(batches, LAMBDA b : b.status = "completed"))]

----------------------------------------------------------------------------
(* GET /api/download/:sessionId/:type *)

\* the property of the results object each report kind reads
ReportProperty(type) ==
  IF type = "not-found" THEN "notFoundRecords"
  ELSE IF type = "duplicates" THEN "duplicateRecords"
  ELSE "errorRecords"

ReportTypes == {"not-found", "duplicates", "errors"}

\* The response of the handler. `data.length` on a property the results
\* object does not have throws a TypeError, which the catch answers with 500
DownloadResponse(sessionId, type) ==
  LET results == getExecutionResults(sessionId)
      data == Get(results, ReportProperty(type))
  IN IF sessionId \notin DOMAIN sessions    \* !results
       THEN [status |-> 404, body |-> "Session not found"]
     ELSE IF type \notin ReportTypes
       THEN [status |-> 400, body |-> "Invalid download type"]
     ELSE IF data = Null
       THEN [status |-> 500, body |-> "TypeError"]
     ELSE IF Len(data) = 0
       THEN [status |-> 404, body |-> "No data available for download"]
     ELSE [status |-> 200, body |-> data]

Download(sessionId, type) ==
  /\ reply' = DownloadResponse(sessionId, type)
  /\ UNCHANGED <<sessions, recordResults, executionBatches, procTasks,
                 execTasks, edits, undoTasks, calls, env>>
  /\ UNCHANGED rlVars

----------------------------------------------------------------------------
(* executeUpdatesInBackground *)

batchSize == 50

Min(a, b) == IF a < b THEN a ELSE b

\* A variant of slice that takes the element at `to` as well
SliceInclusive(seq, from, to) == SubSeq(seq, from + 1, Min(to + 1, Len(seq)))

\* array.slice(from, to), 0-based, `to` excluded and clipped
Slice(seq, from, to) == SubSeq(seq, from + 1, Min(to, Len(seq)))

Ids(results) == [j \in 1..Len(results) |-> results[j].id]

\* A variant of the selection whose default does not look at `selected`
SelectIgnoringSelected(results, recordIds) ==
  IF recordIds.given
    THEN SelectSeq(results, LAMBDA r : r.id \in recordIds.ids)
    ELSE SelectSeq(results, LAMBDA r : r.action = "update" /\ ~Falsy(r.bitrixId))

\* the entries an execution takes: the explicit recordIds, or the default
SelectResults(results, recordIds) ==
  IF recordIds.given
    THEN SelectSeq(results, LAMBDA r : r.id \in recordIds.ids)
    ELSE SelectSeq(results, LAMBDA r :
           r.selected = "true" /\ r.action = "update" /\ ~Falsy(r.bitrixId))

RECURSIVE CreateBatches(_, _, _)
\* `for (let i = 0; i < results.length; i += batchSize)`: the inserts of the
\* batches from position i on, appended to acc
CreateBatches(results, i, acc) ==
  IF i < Len(results)
    THEN CreateBatches(results, i + batchSize,
           Append(acc, [batchNumber |-> (i \div batchSize) + 1,
                        recordIds |-> Ids(Slice(results, i, i + batchSize))]))
    ELSE acc

\* A variant that creates a batch record only for the first batch
storeFirstBatch(eb, sessionId, inserts) ==
  IF inserts = <<>> THEN eb
  ELSE Append(eb, createExecutionBatch(
         [sessionId |-> sessionId, batchNumber |-> Head(inserts).batchNumber,
          recordIds |-> Head(inserts).recordIds, status |-> "pending"],
         Len(eb) + 1))

RECURSIVE storeBatches(_, _, _)
\* the createExecutionBatch calls of that loop
storeBatches(eb, sessionId, inserts) ==
  IF inserts = <<>> THEN eb
  ELSE storeBatches(
         Append(eb, createExecutionBatch(
           [sessionId |-> sessionId, batchNumber |-> Head(inserts).batchNumber,
            recordIds |-> Head(inserts).recordIds, status |-> "pending"],
           Len(eb) + 1)),
         sessionId, Tail(inserts))

\* bitrixId.startsWith('C'): the only identifiers with a C are the companies'
StartsWithC(bitrixId) == bitrixId = "C9"

\* What the bulk endpoint can bring back (the body's content is not read)
BatchResponses == {r \in HttpResponses : r.result = <<>>}

NoCall == [ok |-> TRUE, hasResult |-> TRUE, result |-> <<>>]

\* The outcome of one batch's try block: the grouping loop throws a
\* TypeError on a null bitrixId before any call; then the contact call, then
\* the company call, each only if its group is not empty
BatchOutcome(batchResults, contactResp, companyResp) ==
  LET contactUpdates == SelectSeq(batchResults, LAMBDA r : ~StartsWithC(r.bitrixId))
      companyUpdates == SelectSeq(batchResults, LAMBDA r : StartsWithC(r.bitrixId))
  IN IF \E j \in 1..Len(batchResults) : batchResults[j].bitrixId = Null
       THEN [status |-> "error", errorMessage |-> "TypeError"]
     ELSE IF Len(contactUpdates) > 0 /\ callBitrixAPI(contactResp).thrown
       THEN [status |-> "error", errorMessage |-> "Bitrix API error"]
     ELSE IF Len(companyUpdates) > 0 /\ callBitrixAPI(companyResp).thrown
       THEN [status |-> "error", errorMessage |-> "Bitrix API error"]
     ELSE [status |-> "completed"]

\* The answers that are read: a call that is not made has none
CallsMade(batchResults, contactResp, companyResp) ==
  LET anyNull == \E j \in 1..Len(batchResults) : batchResults[j].bitrixId = Null
      contacts == \E j \in 1..Len(batchResults) :
                     ~StartsWithC(batchResults[j].bitrixId)
      companies == \E j \in 1..Len(batchResults) :
                     StartsWithC(batchResults[j].bitrixId)
      contactCall == ~anyNull /\ contacts
      companyCall == ~anyNull /\ companies
                     /\ ~(contactCall /\ callBitrixAPI(contactResp).thrown)
  IN /\ ~contactCall => contactResp = NoCall
     /\ ~companyCall => companyResp = NoCall

\* A variant whose grouping loop takes an entry without identifier for a
\* contact
BulkCallsNullAsContact(batchResults, contactResp, companyResp) ==
  LET contactUpdates ==
        SelectSeq(batchResults,
                  LAMBDA r : r.bitrixId = Null \/ ~StartsWithC(r.bitrixId))
  IN IF Len(contactUpdates) > 0
       THEN << [method |-> "crm.contact.batch", ids |-> Ids(contactUpdates),
                thrown |-> callBitrixAPI(contactResp).thrown] >>
       ELSE <<>>

\* The bulk calls one batch's try block issues, in order: the method, the
\* entries whose updates it carries, and whether it threw
BulkCalls(batchResults, contactResp, companyResp) ==
  LET contactUpdates == SelectSeq(batchResults, LAMBDA r : ~StartsWithC(r.bitrixId))
      companyUpdates == SelectSeq(batchResults, LAMBDA r : StartsWithC(r.bitrixId))
      contactCall ==
        [method |-> "crm.contact.batch", ids |-> Ids(contactUpdates),
         thrown |-> callBitrixAPI(contactResp).thrown]
      companyCall ==
        [method |-> "crm.company.batch", ids |-> Ids(companyUpdates),
         thrown |-> callBitrixAPI(companyResp).thrown]
  IN IF \E j \in 1..Len(batchResults) : batchResults[j].bitrixId = Null
       THEN <<>>
     ELSE (IF Len(contactUpdates) > 0 THEN <<contactCall>> ELSE <<>>)
          \o (IF Len(companyUpdates) > 0
                  /\ ~(Len(contactUpdates) > 0 /\ contactCall.thrown)
                THEN <<companyCall>> ELSE <<>>)

\* POST /api/execute: sets 'executing' and starts the pass
Execute(s, recordIds) ==
  /\ s \in DOMAIN sessions
  /\ sessions' = updateSessionStatus(sessions, s, "executing")
  /\ execTasks' = Append(execTasks,
       [sessionId |-> s, recordIds |-> recordIds, results |-> <<>>,
        batches |-> <<>>, b |-> 1, pc |-> "select"])
  /\ UNCHANGED <<recordResults, executionBatches, procTasks, edits>>
  /\ UNCHANGED rlVars
  /\ UNCHANGED auxVars

\* getRecordResults, the filter, and the loop that creates the batch records
ExecSelect(t) ==
  LET task == execTasks[t]
      results == SelectResults(getRecordResults(recordResults, task.sessionId),
                               task.recordIds)
      inserts == CreateBatches(results, 0, <<>>)
  IN
  /\ task.pc = "select"
  /\ executionBatches' = storeBatches(executionBatches, task.sessionId, inserts)
  /\ execTasks' = [execTasks EXCEPT
       ![t].results = results,
       ![t].batches = [j \in 1..Len(inserts) |-> inserts[j].recordIds],
       ![t].pc = "batch"]
  /\ UNCHANGED <<sessions, recordResults, procTasks, edits>>
  /\ UNCHANGED rlVars
  /\ UNCHANGED request
  /\ UNCHANGED fileVars
  /\ UNCHANGED auxVars

\* A variant of the loop in which a failed batch ends the loop
AfterBatchAbort(task, outcome) ==
  IF outcome.status = "error" THEN Len(task.batches) + 1 ELSE task.b + 1

\* `for (const batchRecordIds of batches)`: the catch is inside the loop
\* body, so the loop goes on to the next batch after either outcome
AfterBatch(task, outcome) == task.b + 1

\* one iteration of `for (const batchRecordIds of batches)`
ExecBatch(t, contactResp, companyResp) ==
  LET task == execTasks[t]
  IN
  /\ task.pc = "batch"
  /\ task.b <= Len(task.batches)
  /\ LET batchRecordIds == task.batches[task.b]
         batchResults == SelectSeq(task.results,
                           LAMBDA r : Includes(batchRecordIds, r.id))
     IN /\ CallsMade(batchResults, contactResp, companyResp)
        /\ recordResults' =
             updateAll(recordResults, Ids(batchResults),
                       BatchOutcome(batchResults, contactResp, companyResp))
        /\ calls' = BulkCalls(batchResults, contactResp, companyResp)
        /\ execTasks' = [execTasks EXCEPT ![t].b =
             AfterBatch(task, BatchOutcome(batchResults, contactResp, companyResp))]
  /\ UNCHANGED <<sessions, executionBatches, procTasks, edits>>
  /\ UNCHANGED rlVars
  /\ UNCHANGED request
  /\ UNCHANGED fileVars
  /\ UNCHANGED <<undoTasks, reply, env>>

\* A variant of the final status that reports the failed entries
FinalStatusByOutcome(task) ==
  IF \E j \in DOMAIN task.results :
       recordResults[task.results[j].id].status = "error"
    THEN "error" ELSE "completed"

\* the status the pass sets after the batch loop, whatever the outcomes
FinalStatus(task) == "completed"

\* after the batch loop: updateSessionStatus(sessionId, 'completed')
ExecDone(t) ==
  LET task == execTasks[t]
  IN
  /\ task.pc = "batch"
  /\ task.b > Len(task.batches)
  /\ sessions' = updateSessionStatus(sessions, task.sessionId, FinalStatus(task))
  /\ execTasks' = [execTasks EXCEPT ![t].pc = "done"]
  /\ UNCHANGED <<recordResults, executionBatches, procTasks, edits>>
  /\ UNCHANGED rlVars
  /\ UNCHANGED request
  /\ UNCHANGED fileVars
  /\ UNCHANGED auxVars

----------------------------------------------------------------------------
(* POST /api/undo/:sessionId and revertChangesInBackground *)

\* results.filter(r => r.status === 'updated' && r.bitrixId)
UndoSelect(results) ==
  SelectSeq(results, LAMBDA r : r.status = "updated" /\ ~Falsy(r.bitrixId))

\* A variant of the revert condition that reverts every selected entry
RevertAlways(record) == TRUE

\* if (record.currentValue !== null && record.currentValue !== undefined)
ShouldRevert(record) == record.currentValue # Null

\* the handler up to the first revert call: the session is looked up and
\* the entries to revert are taken from the store
Undo(s) ==
  /\ Len(undoTasks) < MaxUndos
  /\ s \in DOMAIN sessions
  /\ undoTasks' = Append(undoTasks,
       [sessionId |-> s,
        records |-> UndoSelect(getRecordResults(recordResults, s)),
        r |-> 1, pc |-> "loop"])
  /\ calls' = <<>>
  /\ UNCHANGED <<sessions, recordResults, executionBatches, procTasks,
                 execTasks, edits, reply, env>>
  /\ UNCHANGED rlVars

\* one iteration of `for (const record of updatedRecords)`: the record is
\* passed over, or its single-record update is called; when the call
\* returns the entry is updated, when it throws the catch around the loop
\* ends the loop
UndoStep(t, resp) ==
  LET task == undoTasks[t]
      record == task.records[task.r]
      call == [method |-> IF StartsWithC(record.bitrixId)
                            THEN "crm.company.update" ELSE "crm.contact.update",
               ids |-> <<record.id>>,
               thrown |-> callBitrixAPI(resp).thrown]
  IN
  /\ task.pc = "loop"
  /\ task.r <= Len(task.records)
  /\ IF ~ShouldRevert(record)
       THEN /\ resp = NoCall
            /\ calls' = <<>>
            /\ undoTasks' = [undoTasks EXCEPT ![t].r = @ + 1]
            /\ UNCHANGED recordResults
     ELSE IF call.thrown
       THEN /\ calls' = <<call>>
            /\ undoTasks' = [undoTasks EXCEPT ![t].pc = "caught"]
            /\ UNCHANGED recordResults
     ELSE /\ calls' = <<call>>
          /\ undoTasks' = [undoTasks EXCEPT ![t].r = @ + 1]
          /\ recordResults' = updateRecordResult(recordResults, record.id,
               [status |-> "found", newValue |-> record.currentValue])
  /\ UNCHANGED <<sessions, executionBatches, procTasks, execTasks, edits, reply,
                 env>>
  /\ UNCHANGED rlVars
  /\ UNCHANGED request
  /\ UNCHANGED fileVars

\* revertChangesInBackground has returned: res.json('Undo process started')
UndoDone(t) ==
  LET task == undoTasks[t]
  IN
  /\ \/ task.pc = "loop" /\ task.r > Len(task.records)
     \/ task.pc = "caught"
  /\ undoTasks' = [undoTasks EXCEPT ![t].pc = "done"]
  /\ reply' = [status |-> 200, body |-> "Undo process started"]
  /\ calls' = <<>>
  /\ UNCHANGED <<sessions, recordResults, executionBatches, procTasks,
                 execTasks, edits, env>>
  /\ UNCHANGED rlVars
  /\ UNCHANGED request
  /\ UNCHANGED fileVars

----------------------------------------------------------------------------
(* validateSecurity *)

\* A gate that checks the domain and not the token
validateDomainOnly(req, e) ==
  LET domain == OrElse(req.domain, req.xBitrixDomain)
  IN IF Falsy(e.secretToken) THEN 500
     ELSE IF Len(e.allowedDomains) > 0 /\ ~Includes(e.allowedDomains, domain) THEN 403
     ELSE 0

\* the status validateSecurity answers with, or 0 when it calls next()
validateSecurity(req, e) ==
  LET token == OrElse(req.token, req.xAuthToken)
      domain == OrElse(req.domain, req.xBitrixDomain)
      secretToken == e.secretToken
      allowedDomains == e.allowedDomains
  IN IF Falsy(secretToken) THEN 500
     ELSE IF token # secretToken THEN 401
     ELSE IF Len(allowedDomains) > 0 /\ ~Includes(allowedDomains, domain) THEN 403
     ELSE 0

SecurityMessage(code) ==
  IF code = 500 THEN "APP_SECRET_TOKEN not configured"
  ELSE IF code = 401 THEN "Invalid or missing token"
  ELSE "Domain not authorized"

\* a route `app.x(path, validateSecurity, handler)`: the handler runs only
\* when the middleware calls next()
Gated(req, Handler) ==
  LET code == validateSecurity(req, env)
  IN /\ request' = [req EXCEPT !.flip = 1 - request.flip]
     /\ UNCHANGED fileVars
     /\ IF code = 0
          THEN Handler
          ELSE /\ reply' = [status |-> code, body |-> SecurityMessage(code)]
               /\ calls' = <<>>
               /\ UNCHANGED <<sessions, recordResults, executionBatches,
                              procTasks, execTasks, edits, undoTasks, env>>
               /\ UNCHANGED rlVars

\* a handler reached by a request that validateSecurity has let through
Admitted(Handler) == Handler /\ UNCHANGED request /\ UNCHANGED fileVars

----------------------------------------------------------------------------
(* The pipeline of an upload session *)

InitEmpty ==
  /\ sessions = <<>>
  /\ recordResults = <<>>
  /\ executionBatches = <<>>
  /\ procTasks = <<>>
  /\ execTasks = <<>>
  /\ edits = 0
  /\ now = StartTime
  /\ lastCall = 0
  /\ callers = <<>>
  /\ starts = <<>>
  /\ undoTasks = <<>>
  /\ calls = <<>>
  /\ reply = NoReply
  /\ env = DefaultEnv
  /\ request = NoRequest
  /\ sessionsFile = <<>>
  /\ resultsFile = <<>>
  /\ fileOps = <<>>

Init == InitEmpty

\* A two-row sheet with one key column: row 0 has no key value
FileB ==
  << [EMAIL |-> "", NAME |-> "New"],
     [EMAIL |-> "e1", NAME |-> "Nu"] >>

\* The answers to a search that differ in what the pipeline stores
LifeResponses ==
  {r \in HttpResponses : Len(r.result) > 0}

\* recordIds of an execute request: absent, or some identifiers
RecordIdChoices ==
  { [given |-> FALSE, ids |-> {}],
    [given |-> TRUE, ids |-> DOMAIN recordResults] }

TasksStarted == Len(procTasks) + Len(execTasks)

Next ==
  \/ Admitted(Upload(FileB, "contacts", <<"EMAIL">>))
  \/ \E s \in DOMAIN sessions :
       TasksStarted < MaxTasks /\ Admitted(Process(s, "contacts", <<"EMAIL">>))
  \/ \E t \in DOMAIN procTasks, r \in LifeResponses : ProcProbe(t, r, r)
  \/ \E t \in DOMAIN procTasks : ProcNotFound(t)
  \/ \E t \in DOMAIN procTasks : ProcDone(t)
  \/ \E id \in DOMAIN recordResults, p \in DOMAIN PatchChoices :
       Admitted(PreviewEdit(id, PatchChoices[p]))
  \/ \E s \in DOMAIN sessions, ids \in RecordIdChoices :
       TasksStarted < MaxTasks /\ Admitted(Execute(s, ids))
  \/ \E t \in DOMAIN execTasks : ExecSelect(t)
  \/ \E t \in DOMAIN execTasks, rc \in BatchResponses, ro \in BatchResponses :
       ExecBatch(t, rc, ro)
  \/ \E t \in DOMAIN execTasks : ExecDone(t)

Spec == Init /\ [][Next]_vars

----------------------------------------------------------------------------
(* The matching pass alone *)

\* The state after the upload of the two-row sheet
InitMatch ==
  /\ sessions = createSession(<<>>,
       [totalRows |-> Len(FileA), targetType |-> "contacts",
        keyColumns |-> <<"EMAIL">>, originalData |-> FileA,
        status |-> "uploaded"])
  /\ recordResults = <<>>
  /\ executionBatches = <<>>
  /\ procTasks = <<>>
  /\ execTasks = <<>>
  /\ edits = 0
  /\ now = StartTime
  /\ lastCall = 0
  /\ callers = <<>>
  /\ starts = <<>>
  /\ undoTasks = <<>>
  /\ calls = <<>>
  /\ reply = NoReply
  /\ env = DefaultEnv
  /\ request = NoRequest
  /\ sessionsFile = <<>>
  /\ resultsFile = <<>>
  /\ fileOps = <<>>

NextMatch ==
  \/ \E s \in DOMAIN sessions, tt \in TargetTypes, kc \in KeyColumnChoices :
       Len(procTasks) < MaxPasses /\ Admitted(Process(s, tt, kc))
  \/ \E t \in DOMAIN procTasks, r1 \in HttpResponses, r2 \in HttpResponses :
       ProcProbe(t, r1, r2)
  \/ \E t \in DOMAIN procTasks : ProcNotFound(t)
  \/ \E t \in DOMAIN procTasks : ProcDone(t)

SpecMatch == InitMatch /\ [][NextMatch]_vars

\* The matching passes requested one after the other
NextPass ==
  \/ \E s \in DOMAIN sessions, tt \in TargetTypes, kc \in KeyColumnChoices :
       /\ Len(procTasks) < MaxPasses
       /\ \A t \in DOMAIN procTasks : procTasks[t].pc = "done"
       /\ Admitted(Process(s, tt, kc))
  \/ \E t \in DOMAIN procTasks, r1 \in HttpResponses, r2 \in HttpResponses :
       ProcProbe(t, r1, r2)
  \/ \E t \in DOMAIN procTasks : ProcNotFound(t)
  \/ \E t \in DOMAIN procTasks : ProcDone(t)

\* Every search returns and every store operation completes, so a pass in
\* its loop goes on; the process requests are under no obligation
SpecPassLive ==
  /\ InitMatch
  /\ [][NextPass]_vars
  /\ WF_vars(\E t \in DOMAIN procTasks, r1 \in HttpResponses,
                r2 \in HttpResponses : ProcProbe(t, r1, r2))
  /\ WF_vars(\E t \in DOMAIN procTasks : ProcNotFound(t))
  /\ WF_vars(\E t \in DOMAIN procTasks : ProcDone(t))

----------------------------------------------------------------------------
(* An execution pass over many matched entries *)

BatchRow == [EMAIL |-> "e1", NAME |-> "New"]

\* The CRM's answer for row j of the sheet: every third row matches twice
BatchAnswer(j) == IF j % 3 = 0 THEN <<E2, E1>> ELSE <<E1>>

\* The state after upload and a matching pass of an n-row sheet, every row
\* matched on EMAIL
InitBatch ==
  \E n \in 1..MaxRows :
    /\ sessions = << [totalRows |-> n, targetType |-> "contacts",
                      keyColumns |-> <<"EMAIL">>,
                      originalData |-> [j \in 1..n |-> BatchRow],
                      status |-> "preview"] >>
    /\ recordResults = createAll(<<>>,
         [j \in 1..n |-> FoundInsert(1, j - 1, "EMAIL", "e1",
                                     PickResult(BatchAnswer(j)), BatchRow, "NAME")])
    /\ executionBatches = <<>>
    /\ procTasks = << [sessionId |-> 1, targetType |-> "contacts",
                       keyColumns |-> <<"EMAIL">>, i |-> n, k |-> 1, pc |-> "done",
                       probes |-> << [row |-> n - 1, key |-> 1, value |-> "e1",
                                      thrown |-> FALSE,
                                      n |-> Len(BatchAnswer(n)),
                                      first |-> BatchAnswer(n)[1].id] >>] >>
    /\ execTasks = <<>>
    /\ edits = 0
    /\ now = StartTime
    /\ lastCall = 0
    /\ callers = <<>>
    /\ starts = <<>>
    /\ undoTasks = <<>>
    /\ calls = <<>>
    /\ reply = NoReply
    /\ env = DefaultEnv
    /\ request = NoRequest
    /\ sessionsFile = <<>>
    /\ resultsFile = <<>>
    /\ fileOps = <<>>

NextBatch ==
  \/ execTasks = <<>> /\ Admitted(Execute(1, [given |-> FALSE, ids |-> {}]))
  \/ \E t \in DOMAIN execTasks : ExecSelect(t)
  \/ \E t \in DOMAIN execTasks, rc \in BatchResponses, ro \in BatchResponses :
       ExecBatch(t, rc, ro)
  \/ \E t \in DOMAIN execTasks : ExecDone(t)

SpecBatch == InitBatch /\ [][NextBatch]_vars

----------------------------------------------------------------------------
(* Preview edits and one execution request over two sessions *)

\* The entries a finished matching pass on EMAIL leaves for a two-row sheet
\* whose row 0 has no EMAIL and whose row 1 was answered by `answer`
PassEntries(sessionId, file, answer) ==
  MapSeq(fieldsToUpdate(file[1], <<"EMAIL">>),
         LAMBDA f : NotFoundInsert(sessionId, 0, <<"EMAIL">>, file[1], f))
  \o MapSeq(fieldsToUpdate(file[2], <<"EMAIL">>),
            LAMBDA f : FoundInsert(sessionId, 1, "EMAIL", "e1",
                                   PickResult(answer), file[2], f))

\* The state after two uploads and a matching pass on each
InitSelect ==
  \E answer \in {<<E1>>, <<E2, E1>>} :
    /\ sessions =
         << [totalRows |-> Len(FileA), targetType |-> "contacts",
             keyColumns |-> <<"EMAIL">>, originalData |-> FileA,
             status |-> "preview"],
            [totalRows |-> Len(FileB), targetType |-> "contacts",
             keyColumns |-> <<"EMAIL">>, originalData |-> FileB,
             status |-> "preview"] >>
    /\ recordResults =
         createAll(createAll(<<>>, PassEntries(1, FileA, answer)),
                   PassEntries(2, FileB, answer))
    /\ executionBatches = <<>>
    /\ procTasks =
         [s \in 1..2 |->
            [sessionId |-> s, targetType |-> "contacts",
             keyColumns |-> <<"EMAIL">>, i |-> 2, k |-> 1, pc |-> "done",
             probes |-> << [row |-> 1, key |-> 1, value |-> "e1",
                            thrown |-> FALSE, n |-> Len(answer),
                            first |-> answer[1].id] >>]]
    /\ execTasks = <<>>
    /\ edits = 0
    /\ now = StartTime
    /\ lastCall = 0
    /\ callers = <<>>
    /\ starts = <<>>
    /\ undoTasks = <<>>
    /\ calls = <<>>
    /\ reply = NoReply
    /\ env = DefaultEnv
    /\ request = NoRequest
    /\ sessionsFile = <<>>
    /\ resultsFile = <<>>
    /\ fileOps = <<>>

\* recordIds of the execution request: absent, empty, some identifiers of
\* both sessions, or all identifiers
SubsetChoices ==
  { [given |-> FALSE, ids |-> {}],
    [given |-> TRUE, ids |-> {}],
    [given |-> TRUE, ids |-> {2, 3, 6}],
    [given |-> TRUE, ids |-> DOMAIN recordResults] }

NextSelect ==
  \/ \E id \in DOMAIN recordResults, p \in DOMAIN PatchChoices :
       Admitted(PreviewEdit(id, PatchChoices[p]))
  \/ \E s \in DOMAIN sessions, ids \in SubsetChoices :
       execTasks = <<>> /\ Admitted(Execute(s, ids))
  \/ \E t \in DOMAIN execTasks : ExecSelect(t)
  \/ \E t \in DOMAIN execTasks, rc \in BatchResponses, ro \in BatchResponses :
       ExecBatch(t, rc, ro)
  \/ \E t \in DOMAIN execTasks : ExecDone(t)

SpecSelect == InitSelect /\ [][NextSelect]_vars

\* The execution pass goes on whenever its awaited store operation or bulk
\* call has returned; the requests themselves are under no obligation
SpecSelectLive ==
  /\ InitSelect
  /\ [][NextSelect]_vars
  /\ WF_vars(\E t \in DOMAIN execTasks : ExecSelect(t))
  /\ WF_vars(\E t \in DOMAIN execTasks, rc \in BatchResponses,
                ro \in BatchResponses : ExecBatch(t, rc, ro))
  /\ WF_vars(\E t \in DOMAIN execTasks : ExecDone(t))

----------------------------------------------------------------------------
(* Execution and undo over two sessions that have been matched *)

\* The updates of a preview request: the status of both matched entries of
\* session 1, of the matched entry of session 2, of an entry that was not
\* found, and a deselection
UndoPatches ==
  { << [id |-> 3, data |-> [status |-> "updated"]],
       [id |-> 4, data |-> [status |-> "updated"]] >>,
    << [id |-> 6, data |-> [status |-> "updated"]] >>,
    << [id |-> 1, data |-> [status |-> "updated"]] >>,
    << [id |-> 3, data |-> [selected |-> "false"]] >> }

NextUndo ==
  \/ \E s \in DOMAIN sessions, u \in UndoPatches : Admitted(PatchPreview(s, u))
  \/ \E s \in DOMAIN sessions :
       execTasks = <<>> /\ Admitted(Execute(s, [given |-> FALSE, ids |-> {}]))
  \/ \E t \in DOMAIN execTasks : ExecSelect(t)
  \/ \E t \in DOMAIN execTasks, rc \in BatchResponses, ro \in BatchResponses :
       ExecBatch(t, rc, ro)
  \/ \E t \in DOMAIN execTasks : ExecDone(t)
  \/ \E s \in DOMAIN sessions : Admitted(Undo(s))
  \/ \E t \in DOMAIN undoTasks, resp \in BatchResponses : UndoStep(t, resp)
  \/ \E t \in DOMAIN undoTasks : UndoDone(t)

SpecUndo == InitSelect /\ [][NextUndo]_vars

----------------------------------------------------------------------------
(* Report downloads around a review and an execution over two sessions *)

\* :sessionId of a download: the two sessions and one that does not exist
DownloadSessions == {1, 2, 3}

\* :type of a download: the report kinds and one that is none
DownloadTypes == ReportTypes \cup {"all"}

NextDownload ==
  \/ \E id \in DOMAIN recordResults, p \in DOMAIN PatchChoices :
       Admitted(PreviewEdit(id, PatchChoices[p]))
  \/ \E s \in DOMAIN sessions :
       execTasks = <<>> /\ Admitted(Execute(s, [given |-> FALSE, ids |-> {}]))
  \/ \E t \in DOMAIN execTasks : ExecSelect(t)
  \/ \E t \in DOMAIN execTasks, rc \in BatchResponses, ro \in BatchResponses :
       ExecBatch(t, rc, ro)
  \/ \E t \in DOMAIN execTasks : ExecDone(t)
  \/ \E s \in DownloadSessions, type \in DownloadTypes :
       Admitted(Download(s, type))

SpecDownload == InitSelect /\ [][NextDownload]_vars

----------------------------------------------------------------------------
(* Execute requests one after the other over two matched sessions *)

\* recordIds of an execution request: absent, or the entries of session 1
\* with the two of them that were not found
ReExecChoices ==
  { [given |-> FALSE, ids |-> {}],
    [given |-> TRUE, ids |-> {1, 2, 3, 4}] }

NextReExec ==
  \/ \E s \in DOMAIN sessions, ids \in ReExecChoices :
       /\ Len(execTasks) < MaxExecs
       /\ \A t \in DOMAIN execTasks : execTasks[t].pc = "done"
       /\ Admitted(Execute(s, ids))
  \/ \E t \in DOMAIN execTasks : ExecSelect(t)
  \/ \E t \in DOMAIN execTasks, rc \in BatchResponses, ro \in BatchResponses :
       ExecBatch(t, rc, ro)
  \/ \E t \in DOMAIN execTasks : ExecDone(t)

SpecReExec == InitSelect /\ [][NextReExec]_vars

----------------------------------------------------------------------------
(* The routes behind validateSecurity *)

\* The deployments: a secret with an allow-list, a secret with no
\* allow-list, and no secret
AuthEnvs ==
  { DefaultEnv,
    [secretToken |-> "s3cret", allowedDomains |-> <<>>],
    [secretToken |-> Null, allowedDomains |-> <<"d1">>] }

\* What a caller sends as ?token, x-auth-token, ?domain and x-bitrix-domain
AuthCredentials ==
  { [token |-> "s3cret", xAuthToken |-> Null,
     domain |-> "d1", xBitrixDomain |-> Null],
    [token |-> Null, xAuthToken |-> "s3cret",
     domain |-> Null, xBitrixDomain |-> "d2"],
    [token |-> "bad", xAuthToken |-> "s3cret",
     domain |-> "d1", xBitrixDomain |-> Null],
    [token |-> Null, xAuthToken |-> Null,
     domain |-> "d1", xBitrixDomain |-> Null] }

AuthRequests(op) ==
  { [op |-> op, token |-> c.token, xAuthToken |-> c.xAuthToken,
     domain |-> c.domain, xBitrixDomain |-> c.xBitrixDomain, flip |-> 0] :
      c \in AuthCredentials }

\* The updates of a preview request on the sheet's matched entry
AuthPatches ==
  { << [id |-> 2, data |-> [status |-> "updated"]] >>,
    << [id |-> 2, data |-> [selected |-> "false"]] >> }

InitAuth ==
  /\ sessions = <<>>
  /\ recordResults = <<>>
  /\ executionBatches = <<>>
  /\ procTasks = <<>>
  /\ execTasks = <<>>
  /\ edits = 0
  /\ now = StartTime
  /\ lastCall = 0
  /\ callers = <<>>
  /\ starts = <<>>
  /\ undoTasks = <<>>
  /\ calls = <<>>
  /\ reply = NoReply
  /\ env \in AuthEnvs
  /\ request = NoRequest
  /\ sessionsFile = <<>>
  /\ resultsFile = <<>>
  /\ fileOps = <<>>

\* One session goes through the pipeline; the request of each step arrives
\* with any of the credentials
NextAuth ==
  \/ \E req \in AuthRequests("upload") :
       sessions = <<>> /\ Gated(req, Upload(FileB, "contacts", <<"EMAIL">>))
  \/ \E req \in AuthRequests("process") :
       /\ procTasks = <<>>
       /\ Gated(req, \E s \in DOMAIN sessions : Process(s, "contacts", <<"EMAIL">>))
  \/ \E t \in DOMAIN procTasks, r \in LifeResponses : ProcProbe(t, r, r)
  \/ \E t \in DOMAIN procTasks : ProcNotFound(t)
  \/ \E t \in DOMAIN procTasks : ProcDone(t)
  \/ \E req \in AuthRequests("preview"), u \in AuthPatches :
       /\ \E t \in DOMAIN procTasks : procTasks[t].pc = "done"
       /\ Gated(req, PreviewEdits(u))
  \/ \E req \in AuthRequests("execute") :
       /\ \E t \in DOMAIN procTasks : procTasks[t].pc = "done"
       /\ execTasks = <<>>
       /\ Gated(req, \E s \in DOMAIN sessions :
                       Execute(s, [given |-> FALSE, ids |-> {}]))
  \/ \E t \in DOMAIN execTasks : ExecSelect(t)
  \/ \E t \in DOMAIN execTasks, rc \in BatchResponses, ro \in BatchResponses :
       ExecBatch(t, rc, ro)
  \/ \E t \in DOMAIN execTasks : ExecDone(t)
  \/ \E req \in AuthRequests("undo") :
       /\ \E t \in DOMAIN execTasks : execTasks[t].pc = "done"
       /\ Gated(req, \E s \in DOMAIN sessions : Undo(s))
  \/ \E t \in DOMAIN undoTasks, resp \in BatchResponses : UndoStep(t, resp)
  \/ \E t \in DOMAIN undoTasks : UndoDone(t)

SpecAuth == InitAuth /\ [][NextAuth]_vars

----------------------------------------------------------------------------
(* FileStorage: whole-file read, change, whole-file write *)

\* The store operations that the tasks of two sessions and a preview edit
\* have to make: owner is the task, which awaits each of its operations
FileOpChoices ==
  << [owner |-> "process 1", kind |-> "createRecordResult", id |-> Null,
      data |-> NotFoundInsert(1, 0, <<"EMAIL">>, FileA[1], "NAME")],
     [owner |-> "process 2", kind |-> "createRecordResult", id |-> Null,
      data |-> NotFoundInsert(2, 0, <<"EMAIL">>, FileB[1], "NAME")],
     [owner |-> "execute 1", kind |-> "updateRecordResult", id |-> 1,
      data |-> [status |-> "completed"]],
     [owner |-> "preview", kind |-> "updateRecordResults", id |-> Null,
      data |-> << [id |-> 1, data |-> [selected |-> "false"]] >>],
     [owner |-> "process 1", kind |-> "updateSessionStatus", id |-> 1,
      data |-> [status |-> "preview"]],
     [owner |-> "process 2", kind |-> "updateSessionStatus", id |-> 2,
      data |-> [status |-> "preview"]] >>

\* randomUUID() of the o-th operation: unlike any other identifier
NewId(o) == 10 + o

\* results[id] = { ...results[id], ...updates } over the entries read
MergeById(results, id, updates) ==
  [j \in DOMAIN results |->
     IF results[j].id = id THEN Merge(results[j], updates) ELSE results[j]]

RECURSIVE MergeAll(_, _)
\* the loop of updateRecordResults over the entries read
MergeAll(results, updates) ==
  IF updates = <<>> THEN results
  ELSE MergeAll(MergeById(results, Head(updates).id, Head(updates).data),
                Tail(updates))

\* what the operation hands to writeFile: what it read, with its change
Changed(o) ==
  LET op == fileOps[o]
  IN IF op.kind = "createRecordResult"
       THEN Append(op.local, createRecordResult(op.data, NewId(o)))
     ELSE IF op.kind = "updateRecordResult"
       THEN MergeById(op.local, op.id, op.data)
     ELSE IF op.kind = "updateRecordResults"
       THEN MergeAll(op.local, op.data)
     ELSE IF op.id \in DOMAIN op.local
       THEN [op.local EXCEPT ![op.id] =
               Merge(@, [status |-> op.data.status, processedData |-> Null])]
     ELSE op.local

\* the operation writes, except updateRecordResult and updateSessionStatus
\* when what they read does not hold their target
Writes(o) ==
  LET op == fileOps[o]
  IN IF op.kind = "updateRecordResult"
       THEN \E j \in DOMAIN op.local : op.local[j].id = op.id
     ELSE IF op.kind = "updateSessionStatus" THEN op.id \in DOMAIN op.local
     ELSE TRUE

OnSessions(kind) == kind = "updateSessionStatus"

FileFrame ==
  /\ UNCHANGED <<sessions, recordResults, executionBatches, procTasks,
                 execTasks, edits>>
  /\ UNCHANGED rlVars
  /\ UNCHANGED auxVars
  /\ UNCHANGED request

\* a task calls a store operation, each of them once; it has awaited its
\* earlier ones
FileBegin(c) ==
  /\ Len(fileOps) < MaxFileOps
  /\ \A o \in DOMAIN fileOps :
       /\ fileOps[o].owner = FileOpChoices[c].owner => fileOps[o].pc = "done"
       /\ fileOps[o].choice # c
  /\ fileOps' = Append(fileOps,
       [choice |-> c,
        owner |-> FileOpChoices[c].owner, kind |-> FileOpChoices[c].kind,
        id |-> FileOpChoices[c].id, data |-> FileOpChoices[c].data,
        pc |-> "read", local |-> <<>>])
  /\ UNCHANGED <<sessionsFile, resultsFile>>
  /\ FileFrame

\* `await this.readFile(...)` returns the content of the file
FileRead(o) ==
  /\ fileOps[o].pc = "read"
  /\ fileOps' = [fileOps EXCEPT
       ![o].local = IF OnSessions(fileOps[o].kind) THEN sessionsFile
                    ELSE resultsFile,
       ![o].pc = "write"]
  /\ UNCHANGED <<sessionsFile, resultsFile>>
  /\ FileFrame

\* the change in memory and `await this.writeFile(...)` of the whole content
FileWrite(o) ==
  /\ fileOps[o].pc = "write"
  /\ fileOps' = [fileOps EXCEPT ![o].pc = "done"]
  /\ IF ~Writes(o) THEN UNCHANGED <<sessionsFile, resultsFile>>
     ELSE IF OnSessions(fileOps[o].kind)
       THEN sessionsFile' = Changed(o) /\ UNCHANGED resultsFile
     ELSE resultsFile' = Changed(o) /\ UNCHANGED sessionsFile
  /\ FileFrame

\* Two sessions that are being matched, the first with a matched entry
InitFile ==
  /\ sessions = <<>>
  /\ recordResults = <<>>
  /\ executionBatches = <<>>
  /\ procTasks = <<>>
  /\ execTasks = <<>>
  /\ edits = 0
  /\ now = StartTime
  /\ lastCall = 0
  /\ callers = <<>>
  /\ starts = <<>>
  /\ undoTasks = <<>>
  /\ calls = <<>>
  /\ reply = NoReply
  /\ env = DefaultEnv
  /\ request = NoRequest
  /\ sessionsFile =
       << [totalRows |-> Len(FileA), targetType |-> "contacts",
           keyColumns |-> <<"EMAIL">>, originalData |-> FileA,
           status |-> "processing"],
          [totalRows |-> Len(FileB), targetType |-> "contacts",
           keyColumns |-> <<"EMAIL">>, originalData |-> FileB,
           status |-> "processing"] >>
  /\ resultsFile =
       << createRecordResult(
            FoundInsert(1, 1, "EMAIL", "e1", PickResult(<<E1>>), FileA[2], "PHONE"),
            1) >>
  /\ fileOps = <<>>

NextFile ==
  \/ \E c \in DOMAIN FileOpChoices : FileBegin(c)
  \/ \E o \in DOMAIN fileOps : FileRead(o)
  \/ \E o \in DOMAIN fileOps : FileWrite(o)

SpecFile == InitFile /\ [][NextFile]_vars

----------------------------------------------------------------------------
(* rateLimiter and callBitrixAPI under concurrent callers *)

minInterval == 500

\* A variant that sleeps a whole interval
waitWholeInterval(timeSinceLastCall) == minInterval

\* const waitTime = this.minInterval - timeSinceLastCall
waitTime(timeSinceLastCall) == minInterval - timeSinceLastCall

\* `await rateLimiter.wait()` up to its suspension: the caller reads the
\* clock and lastCall, and either sleeps for the remainder or passes at once
WaitEnter(c) ==
  LET timeSinceLastCall == now - lastCall
  IN
  /\ callers[c].pc = "idle"
  /\ IF timeSinceLastCall < minInterval
       THEN /\ callers' = [callers EXCEPT
                 ![c] = [pc |-> "sleeping",
                         wakeAt |-> now + waitTime(timeSinceLastCall)]]
            /\ UNCHANGED <<lastCall, starts>>
       ELSE /\ lastCall' = now
            /\ callers' = [callers EXCEPT ![c] = [pc |-> "fetching", wakeAt |-> 0]]
            /\ starts' = Append(starts, now)
  /\ UNCHANGED now
  /\ UNCHANGED <<sessions, recordResults, executionBatches, procTasks, execTasks,
                 edits>>
  /\ UNCHANGED auxVars
  /\ UNCHANGED request
  /\ UNCHANGED fileVars

\* the timer fires: `this.lastCall = Date.now()`, and the fetch starts
WaitWake(c) ==
  /\ callers[c].pc = "sleeping"
  /\ now >= callers[c].wakeAt
  /\ lastCall' = now
  /\ callers' = [callers EXCEPT ![c] = [pc |-> "fetching", wakeAt |-> 0]]
  /\ starts' = Append(starts, now)
  /\ UNCHANGED now
  /\ UNCHANGED <<sessions, recordResults, executionBatches, procTasks, execTasks,
                 edits>>
  /\ UNCHANGED auxVars
  /\ UNCHANGED request
  /\ UNCHANGED fileVars

\* the fetch settles (with a response or a failure); the caller may call again
FetchReturn(c) ==
  /\ callers[c].pc = "fetching"
  /\ callers' = [callers EXCEPT ![c] = [pc |-> "idle", wakeAt |-> 0]]
  /\ UNCHANGED <<now, lastCall, starts>>
  /\ UNCHANGED <<sessions, recordResults, executionBatches, procTasks, execTasks,
                 edits>>
  /\ UNCHANGED auxVars
  /\ UNCHANGED request
  /\ UNCHANGED fileVars

\* the clock advances; a timer that is due fires before it advances further
Tick ==
  /\ now < MaxTime
  /\ \A c \in DOMAIN callers : callers[c].pc = "sleeping" => now < callers[c].wakeAt
  /\ now' = now + TickMs
  /\ UNCHANGED <<lastCall, callers, starts>>
  /\ UNCHANGED <<sessions, recordResults, executionBatches, procTasks, execTasks,
                 edits>>
  /\ UNCHANGED auxVars
  /\ UNCHANGED request
  /\ UNCHANGED fileVars

InitRL ==
  /\ sessions = <<>>
  /\ recordResults = <<>>
  /\ executionBatches = <<>>
  /\ procTasks = <<>>
  /\ execTasks = <<>>
  /\ edits = 0
  /\ now = StartTime
  /\ lastCall = 0
  /\ callers = [c \in 1..NumCallers |-> [pc |-> "idle", wakeAt |-> 0]]
  /\ starts = <<>>
  /\ undoTasks = <<>>
  /\ calls = <<>>
  /\ reply = NoReply
  /\ env = DefaultEnv
  /\ request = NoRequest
  /\ sessionsFile = <<>>
  /\ resultsFile = <<>>
  /\ fileOps = <<>>

NextRL ==
  \/ \E c \in DOMAIN callers : WaitEnter(c)
  \/ \E c \in DOMAIN callers : WaitWake(c)
  \/ \E c \in DOMAIN callers : FetchReturn(c)
  \/ Tick

SpecRL == InitRL /\ [][NextRL]_vars

----------------------------------------------------------------------------
(* Vocabulary of the properties *)

Last(seq) == seq[Len(seq)]

Range(seq) == {seq[j] : j \in DOMAIN seq}

\* The entries a step has added to the store
NewEntries == SubSeq(recordResults', Len(recordResults) + 1, Len(recordResults'))

\* The batch records a step has added to the store
NewBatches ==
  SubSeq(executionBatches', Len(executionBatches) + 1, Len(executionBatches'))

\* The non-key columns of a row, in header order
NonKeyColumns(row, keyColumns) ==
  SelectSeq(ColumnOrder,
            LAMBDA c : c \in DOMAIN row /\ c \notin Range(keyColumns))

\* The positions of the key columns whose value in the row is not empty
NonEmptyKeys(row, keyColumns) ==
  SelectSeq([j \in 1..Len(keyColumns) |-> j],
            LAMBDA j : keyColumns[j] \in DOMAIN row /\ row[keyColumns[j]] # "")

EntityById(id) == IF id = E1.id THEN E1 ELSE E2

\* A step of pass t that has issued a search
Probed(t) ==
  /\ procTasks'[t].probes # procTasks[t].probes
  /\ procTasks'[t].probes # <<>>

\* A step of pass t that has finished a row
RowFinished(t) == procTasks'[t].i = procTasks[t].i + 1

----------------------------------------------------------------------------
(* C4 *)

\* The probes logged for the row a pass works on, or has just finished, are
\* the row's non-empty key columns in priority order, up to the first match
ProbesInOrder(task) ==
  LET data == RowsOf(task)
      log == task.probes
      r == IF task.k > 1 THEN task.i ELSE task.i - 1
      ne == IF r >= 0 THEN NonEmptyKeys(data[r + 1], task.keyColumns) ELSE <<>>
  IN /\ Len(log) <= Len(ne)
     /\ \A j \in DOMAIN log :
          /\ log[j].row = r
          /\ log[j].key = ne[j]
          /\ log[j].value = data[r + 1][task.keyColumns[ne[j]]]
          /\ log[j].value # ""
          /\ j < Len(log) => log[j].n = 0
     /\ task.k > 1 => /\ log # <<>>
                      /\ Last(log).n = 0
                      /\ task.k = Last(log).key + 1
     /\ (task.k = 1 /\ r >= 0) =>
          \/ log # <<>> /\ Last(log).n >= 1
          \/ Len(log) = Len(ne)

C4_Inv == \A t \in DOMAIN procTasks : ProbesInOrder(procTasks[t])

\* A search that returns a result ends the row, and the row's entries carry
\* the key column and value of that search
C4_Act ==
  \A t \in DOMAIN procTasks :
    (Probed(t) /\ Last(procTasks'[t].probes).n >= 1) =>
      LET task == procTasks[t]
          p == Last(procTasks'[t].probes)
      IN /\ RowFinished(t)
         /\ procTasks'[t].k = 1
         /\ \A j \in DOMAIN NewEntries :
              /\ NewEntries[j].rowIndex = p.row
              /\ NewEntries[j].searchKey = <<task.keyColumns[p.key], p.value>>
              /\ NewEntries[j].bitrixId = p.first

----------------------------------------------------------------------------
(* C5 *)

\* C5: a search that returns more than one result gives every entry of the
\* row the status "duplicate" and the first result's identifier and values;
\* a search that returns exactly one result gives the status "found"
C5_DuplicateStatus ==
  [][\A t \in DOMAIN procTasks :
       (Probed(t) /\ Last(procTasks'[t].probes).n >= 1) =>
         LET p == Last(procTasks'[t].probes)
         IN \A j \in DOMAIN NewEntries :
              /\ NewEntries[j].bitrixId = p.first
              /\ NewEntries[j].status = IF p.n > 1 THEN "duplicate" ELSE "found"]_vars

----------------------------------------------------------------------------
(* C6 *)

\* C6: every entry stored for a matched row has action "update", is
\* selected, has an external identifier, the row's value as new value, and
\* as current value the matched entity's value for the field, the empty
\* string when the entity has none
C6_MatchedEntry ==
  [][\A t \in DOMAIN procTasks :
       (Probed(t) /\ Last(procTasks'[t].probes).n >= 1) =>
         LET task == procTasks[t]
             p == Last(procTasks'[t].probes)
             row == RowsOf(task)[p.row + 1]
             entity == EntityById(p.first)
         IN \A j \in DOMAIN NewEntries :
              LET e == NewEntries[j]
              IN /\ e.action = "update"
                 /\ e.selected = "true"
                 /\ e.bitrixId # Null
                 /\ e.newValue = row[e.field]
                 /\ e.currentValue =
                      IF entity.fields[e.field] = Null THEN ""
                      ELSE entity.fields[e.field]]_vars

----------------------------------------------------------------------------
(* C7 *)

\* C7: when a pass finishes a row for which no search returned a result, the
\* entries it stores, one per non-key column, have action "ignore", status
\* "not_found", are not selected, have neither an external identifier nor a
\* current value, and have the row's value as new value
C7_NotFoundEntry ==
  [][\A t \in DOMAIN procTasks :
       (RowFinished(t) /\ \A j \in DOMAIN procTasks'[t].probes :
                             procTasks'[t].probes[j].n = 0) =>
         LET task == procTasks[t]
             row == RowsOf(task)[task.i + 1]
             fields == NonKeyColumns(row, task.keyColumns)
         IN /\ Len(NewEntries) = Len(fields)
            /\ \A j \in DOMAIN NewEntries :
                 LET e == NewEntries[j]
                 IN /\ e.sessionId = task.sessionId
                    /\ e.rowIndex = task.i
                    /\ e.field = fields[j]
                    /\ e.action = "ignore"
                    /\ e.status = "not_found"
                    /\ e.selected = "false"
                    /\ e.bitrixId = Null
                    /\ e.currentValue = Null
                    /\ e.newValue = row[e.field]]_vars

\* A pass has finished row 0 without a match, after a search of it, and the
\* store holds the row's two not-found entries
C7_Witness ==
  \E t \in DOMAIN procTasks :
    LET task == procTasks[t]
    IN /\ task.i = 1 /\ task.k = 1
       /\ task.keyColumns = <<"EMAIL">>
       /\ Cardinality({j \in DOMAIN recordResults :
                         /\ recordResults[j].rowIndex = 0
                         /\ recordResults[j].status = "not_found"
                         /\ recordResults[j].newValue # ""}) = 2

----------------------------------------------------------------------------
(* C8 *)

\* A search that throws leaves the pass in its row loop, at the next key
\* column of the same row, and changes neither the store nor any status
C8_ThrowAct ==
  \A t \in DOMAIN procTasks :
    (Probed(t) /\ Last(procTasks'[t].probes).thrown) =>
      /\ procTasks'[t].pc = "loop"
      /\ procTasks'[t].i = procTasks[t].i
      /\ procTasks'[t].k = Last(procTasks'[t].probes).key + 1
      /\ UNCHANGED storeVars

\* A finished row has its entries: one per non-key column
C8_RowAct ==
  \A t \in DOMAIN procTasks :
    RowFinished(t) =>
      LET task == procTasks[t]
          row == RowsOf(task)[task.i + 1]
      IN /\ Len(NewEntries) = Len(NonKeyColumns(row, task.keyColumns))
         /\ \A j \in DOMAIN NewEntries :
              /\ NewEntries[j].sessionId = task.sessionId
              /\ NewEntries[j].rowIndex = task.i

\* A pass ends only after its last row, a row is left only after a match or
\* after its last non-empty key column, and no session is in status error
C8_Inv ==
  /\ \A t \in DOMAIN procTasks :
       LET task == procTasks[t]
           r == task.i - 1
       IN /\ task.pc = "done" => task.i = Len(RowsOf(task))
          /\ (task.k = 1 /\ r >= 0 /\ \E j \in DOMAIN task.probes :
                                        task.probes[j].thrown) =>
               \/ Last(task.probes).n >= 1
               \/ Len(task.probes) =
                    Len(NonEmptyKeys(RowsOf(task)[r + 1], task.keyColumns))
  /\ \A s \in DOMAIN sessions : sessions[s].status # "error"

\* C8: when the search for one key column of a row throws, matching goes on
\* with the next key column of the row and then with the remaining rows; the
\* failure never sets the session status to error and never leaves the row
\* without entries
C8_SearchFailure == []C8_Inv /\ [][C8_ThrowAct /\ C8_RowAct]_vars

\* A pass has ended in preview although the search on the first key column
\* of its last row threw; the second key column was searched and matched
C8_Witness ==
  \E t \in DOMAIN procTasks :
    LET task == procTasks[t]
    IN /\ task.pc = "done"
       /\ sessions[task.sessionId].status = "preview"
       /\ Len(task.probes) = 2
       /\ task.probes[1].thrown
       /\ task.probes[2].n >= 1
       /\ \E j \in DOMAIN recordResults :
            /\ recordResults[j].rowIndex = task.probes[2].row
            /\ recordResults[j].status = "found"
            /\ recordResults[j].searchKey = <<"PHONE", "p1">>

----------------------------------------------------------------------------
(* C1 *)

AllowedTransitions ==
  { <<"uploaded", "processing">>, <<"processing", "preview">>,
    <<"processing", "error">>, <<"preview", "executing">>,
    <<"executing", "completed">>, <<"executing", "error">> }

\* C1: every change of a session's status is one of uploaded->processing,
\* processing->preview, processing->error, preview->executing,
\* executing->completed, executing->error
C1_StatusTransitions ==
  [][\A s \in DOMAIN sessions :
       sessions'[s].status # sessions[s].status =>
         <<sessions[s].status, sessions'[s].status>> \in AllowedTransitions]_vars

----------------------------------------------------------------------------
(* C2 *)

\* C2: any two external calls start at least minInterval apart
C2_MinInterval ==
  \A a \in DOMAIN starts, b \in DOMAIN starts :
    a < b => starts[b] - starts[a] >= minInterval

----------------------------------------------------------------------------
(* C3 *)

EntriesFor(s, r, f) ==
  {j \in DOMAIN recordResults :
     /\ recordResults[j].sessionId = s
     /\ recordResults[j].rowIndex = r
     /\ recordResults[j].field = f}

\* C3: once the matching passes requested on a session have completed, every
\* row of the session has exactly one entry for each of its non-key columns
C3_OneEntryPerField ==
  \A t \in DOMAIN procTasks :
    LET task == procTasks[t]
        s == task.sessionId
    IN (\A u \in DOMAIN procTasks :
          procTasks[u].sessionId = s => procTasks[u].pc = "done") =>
         \A r \in DOMAIN RowsOf(task) :
           LET fields == NonKeyColumns(RowsOf(task)[r], task.keyColumns)
           IN \A j \in DOMAIN fields :
                Cardinality(EntriesFor(s, r - 1, fields[j])) = 1

----------------------------------------------------------------------------
(* C9 *)

\* The entries of a session an execution request is to place into batches
ExpectedSelection(sessionId, recordIds) ==
  {j \in DOMAIN recordResults :
     /\ recordResults[j].sessionId = sessionId
     /\ IF recordIds.given
          THEN recordResults[j].id \in recordIds.ids
          ELSE /\ recordResults[j].selected = "true"
               /\ recordResults[j].action = "update"
               /\ recordResults[j].bitrixId # Null}

\* The places of the batch records a step has added that hold identifier id
Placements(id) ==
  {bk \in UNION {{<<b, k>> : k \in DOMAIN NewBatches[b].recordIds} :
                   b \in DOMAIN NewBatches} :
     NewBatches[bk[1]].recordIds[bk[2]] = id}

\* C9: the step of an execution that creates its batch records places into
\* them, once each, exactly the session's entries that are selected, have
\* action "update" and an external identifier when the request named no
\* subset, and exactly the session's entries named in the subset otherwise
C9_Selection ==
  [][\A t \in DOMAIN execTasks :
       (execTasks[t].pc = "select" /\ execTasks'[t].pc # "select") =>
         LET task == execTasks[t]
             expected == ExpectedSelection(task.sessionId, task.recordIds)
         IN /\ \A b \in DOMAIN NewBatches :
                 NewBatches[b].sessionId = task.sessionId
            /\ \A id \in DOMAIN recordResults :
                 Cardinality(Placements(id)) = IF id \in expected THEN 1 ELSE 0
            /\ \A b \in DOMAIN NewBatches :
                 \A k \in DOMAIN NewBatches[b].recordIds :
                   NewBatches[b].recordIds[k] \in expected]_vars

\* An execution without a subset has placed an entry of its session and has
\* left out a matched entry of the session that an edit had deselected
C9_Witness ==
  \E t \in DOMAIN execTasks :
    LET task == execTasks[t]
    IN /\ task.pc = "batch"
       /\ ~task.recordIds.given
       /\ task.batches # <<>>
       /\ executionBatches # <<>>
       /\ \E j \in DOMAIN recordResults :
            /\ recordResults[j].sessionId = task.sessionId
            /\ recordResults[j].bitrixId # Null
            /\ recordResults[j].selected = "false"
            /\ recordResults[j].status = "found"
            /\ \A b \in DOMAIN executionBatches :
                 ~Includes(executionBatches[b].recordIds, j)

----------------------------------------------------------------------------
(* C10 *)

\* The batch records of a session, in the order of their creation
BatchesOf(sessionId) ==
  SelectSeq(executionBatches, LAMBDA b : b.sessionId = sessionId)

\* C10: the N entries selected for an execution are in ceil(N/50) batch
\* records numbered from 1; the record numbered i + 1 holds the entries at
\* positions 50i up to min(50(i+1), N), in their order
C10_Partition ==
  \A t \in DOMAIN execTasks :
    execTasks[t].pc # "select" =>
      LET task == execTasks[t]
          N == Len(task.results)
          bs == BatchesOf(task.sessionId)
      IN /\ Len(bs) = (N + 49) \div 50
         /\ \A b \in DOMAIN bs :
              LET from == 50 * (b - 1)
                  to == IF 50 * b < N THEN 50 * b ELSE N
              IN /\ bs[b].batchNumber = b
                 /\ Len(bs[b].recordIds) = to - from
                 /\ \A k \in 1..(to - from) :
                      bs[b].recordIds[k] = task.results[from + k].id
         /\ \A p \in DOMAIN task.results :
              Cardinality({bk \in UNION {{<<b, k>> : k \in DOMAIN bs[b].recordIds} :
                                          b \in DOMAIN bs} :
                             bs[bk[1]].recordIds[bk[2]] = task.results[p].id}) = 1

\* 101 entries were selected: three batch records, the last with one entry
C10_Witness ==
  \E t \in DOMAIN execTasks :
    /\ execTasks[t].pc # "select"
    /\ Len(execTasks[t].results) = 101
    /\ Len(recordResults) = 101
    /\ Len(executionBatches) = 3
    /\ Len(executionBatches[2].recordIds) = 50
    /\ executionBatches[3].recordIds = <<101>>

----------------------------------------------------------------------------
(* C11 *)

\* A step of execution t that has worked through one batch
BatchStep(t) == execTasks'[t].b = execTasks[t].b + 1

\* C11: the step that works through a batch leaves the entries carried by a
\* bulk call that succeeded with status "completed", and when a bulk call
\* failed, the entries it carried, and no other entry of the batch, with
\* status "error" and the error message
C11_PerKindOutcome ==
  [][\A t \in DOMAIN execTasks :
       BatchStep(t) =>
         LET batchIds == Range(execTasks[t].batches[execTasks[t].b])
         IN \A c \in DOMAIN calls' :
              LET call == calls'[c]
              IN IF call.thrown
                   THEN /\ \A id \in Range(call.ids) :
                             /\ recordResults'[id].status = "error"
                             /\ recordResults'[id].errorMessage # Null
                        /\ \A id \in batchIds \ Range(call.ids) :
                             recordResults'[id].status # "error"
                   ELSE \A id \in Range(call.ids) :
                          recordResults'[id].status = "completed"]_vars

----------------------------------------------------------------------------
(* C12 *)

\* The batch loop moves from one batch to the next, and ends only after the
\* last batch
C12_Inv ==
  \A t \in DOMAIN execTasks :
    LET task == execTasks[t]
    IN /\ task.b \in 1..(Len(task.batches) + 1)
       /\ task.pc = "done" => task.b = Len(task.batches) + 1

\* Every move of the batch loop is a move to the next batch, made by a step
\* that issues bulk calls for the entries of the batch it leaves, and for
\* no others, when those entries all have an external identifier
C12_Act ==
  \A t \in DOMAIN execTasks :
    LET task == execTasks[t]
    IN /\ execTasks'[t].b # task.b => BatchStep(t)
       /\ BatchStep(t) =>
            LET batchIds == Range(task.batches[task.b])
            IN /\ (\A j \in DOMAIN task.results :
                     task.results[j].id \in batchIds =>
                       task.results[j].bitrixId # Null) => calls' # <<>>
               /\ \A c \in DOMAIN calls' : Range(calls'[c].ids) \subseteq batchIds
       /\ (task.pc = "batch" /\ execTasks'[t].pc = "done") =>
            task.b = Len(task.batches) + 1

\* C12: whatever the outcomes of the earlier batches, every batch the
\* partition created is attempted, in the order of the sequence numbers:
\* the loop goes from each batch to the next, its step for a batch issues
\* that batch's bulk call, and the pass ends only after the last batch
C12_LaterBatches == []C12_Inv /\ [][C12_Act]_vars

\* The first batch failed and the step for the second batch has issued a
\* bulk call for entries of the second batch
C12_Witness ==
  \E t \in DOMAIN execTasks :
    /\ execTasks[t].b = 3
    /\ Len(execTasks[t].batches) >= 2
    /\ \A id \in Range(execTasks[t].batches[1]) : recordResults[id].status = "error"
    /\ calls # <<>>
    /\ Range(calls[1].ids) \subseteq Range(execTasks[t].batches[2])
    /\ calls[1].ids # <<>>

----------------------------------------------------------------------------
(* C13 *)

ExecutionStarted == Len(execTasks) >= 1

ExecutionCompleted ==
  /\ Len(execTasks) >= 1
  /\ execTasks[1].pc = "done"
  /\ sessions[execTasks[1].sessionId].status = "completed"

NoErrorStatus == \A s \in DOMAIN sessions : sessions[s].status # "error"

\* C13: an execution pass whose bulk calls all return ends with the session
\* status "completed", whatever the outcomes of the calls, and the session
\* status is never "error"
C13_Completes == (ExecutionStarted ~> ExecutionCompleted) /\ []NoErrorStatus

\* The pass has ended with status "completed" and every entry it took has
\* status "error"
C13_Witness ==
  /\ ExecutionCompleted
  /\ Len(execTasks[1].batches) >= 1
  /\ \A j \in DOMAIN execTasks[1].results :
       recordResults[execTasks[1].results[j].id].status = "error"

----------------------------------------------------------------------------
(* C14 *)

\* The batches of a pass whose entries all ended with status "completed"
SucceededBatches(task) ==
  {b \in DOMAIN task.batches :
     \A id \in Range(task.batches[b]) : recordResults[id].status = "completed"}

\* C14: when a pass has ended and the session status is "completed", each of
\* the session's batch records has status "completed" or "failed", and the
\* progress query counts as completed the batches whose calls succeeded
C14_BatchStatus ==
  \A t \in DOMAIN execTasks :
    LET task == execTasks[t]
    IN (task.pc = "done" /\ sessions[task.sessionId].status = "completed") =>
         /\ \A b \in DOMAIN executionBatches :
              executionBatches[b].sessionId = task.sessionId =>
                executionBatches[b].status \in {"completed", "failed"}
         /\ getExecutionProgress(task.sessionId).completedBatches =
              Cardinality(SucceededBatches(task))

----------------------------------------------------------------------------
(* C15 *)

\* A step that serves an undo request
UndoRequested == Len(undoTasks') = Len(undoTasks) + 1

\* A step of the revert loop of undo u
RevertStep(u) ==
  /\ u \in DOMAIN undoTasks
  /\ undoTasks[u].pc = "loop"
  /\ undoTasks'[u] # undoTasks[u]
  /\ undoTasks[u].r <= Len(undoTasks[u].records)

\* C15: an undo request selects every entry of the session that an
\* execution pass has marked as applied and that has an external identifier
\* and a current value, and the revert of a selected entry, when its call
\* returns, leaves it with status "found" and its current value as new value
C15_UndoSelectsApplied ==
  [][/\ UndoRequested =>
          LET task == Last(undoTasks')
          IN \A j \in DOMAIN recordResults :
               (/\ recordResults[j].sessionId = task.sessionId
                /\ recordResults[j].status = "completed"
                /\ recordResults[j].bitrixId # Null
                /\ recordResults[j].currentValue # Null) =>
                 \E k \in DOMAIN task.records : task.records[k].id = j
     /\ \A u \in DOMAIN undoTasks :
          (RevertStep(u) /\ calls' # <<>> /\ ~calls'[1].thrown) =>
            LET id == calls'[1].ids[1]
            IN /\ recordResults'[id].status = "found"
               /\ recordResults'[id].newValue = recordResults'[id].currentValue]_vars

----------------------------------------------------------------------------
(* C16 *)

\* The statuses of an entry that has been applied
AppliedStatuses == {"completed", "updated"}

\* A step of an undo: the request, a turn of its revert loop, or its end
UndoActs == undoTasks' # undoTasks

\* Entry j is the one the revert loop of some undo has now reached, and at
\* the time of the undo request it had an applied status and a current value
Revertible(j) ==
  \E u \in DOMAIN undoTasks :
    /\ RevertStep(u)
    /\ LET record == undoTasks[u].records[undoTasks[u].r]
       IN /\ record.id = j
          /\ record.status \in AppliedStatuses
          /\ record.currentValue # Null

\* C16: an undo takes its entries as they are at the request; it issues no
\* revert call for, and does not modify, an entry that then had no current
\* value or a status other than an applied one
C16_UndoFrame ==
  [][UndoActs =>
       /\ UndoRequested =>
            /\ recordResults' = recordResults
            /\ LET task == Last(undoTasks')
               IN \A k \in DOMAIN task.records :
                    /\ task.records[k] = recordResults[task.records[k].id]
                    /\ task.records[k].sessionId = task.sessionId
       /\ \A j \in DOMAIN recordResults :
            ~Revertible(j) =>
              /\ recordResults'[j] = recordResults[j]
              /\ \A c \in DOMAIN calls' : ~Includes(calls'[c].ids, j)]_vars

\* An undo has passed over a selected entry without a current value, which
\* still has its status, and the entry that was not found is untouched
C16_Witness ==
  \E u \in DOMAIN undoTasks :
    LET task == undoTasks[u]
    IN /\ task.r > 1
       /\ task.records[1].currentValue = Null
       /\ recordResults[task.records[1].id].status = "updated"
       /\ recordResults[task.records[1].id].newValue # Null
       /\ recordResults[1].status \in {"not_found", "updated"}

----------------------------------------------------------------------------
(* C17 *)

\* C17: a revert call that fails leaves its entry as it was, and the revert
\* loop goes on to the next selected entry
C17_UndoContinues ==
  [][\A u \in DOMAIN undoTasks :
       (RevertStep(u) /\ calls' # <<>> /\ calls'[1].thrown) =>
         /\ recordResults' = recordResults
         /\ undoTasks'[u].pc = "loop"
         /\ undoTasks'[u].r = undoTasks[u].r + 1]_vars

----------------------------------------------------------------------------
(* C18 *)

\* A step that serves a request
RequestServed == request' # request

\* The step has changed no session, entry, batch record or task, and has
\* issued no external call
PipelineUntouched ==
  /\ UNCHANGED <<sessions, recordResults, executionBatches>>
  /\ UNCHANGED <<procTasks, execTasks, undoTasks, edits>>
  /\ UNCHANGED rlVars
  /\ calls' = <<>>

\* C18: with a secret configured, a request to upload, process, preview
\* edit, execute or undo whose token is not the secret is answered 401, and
\* one with the secret as token and a domain that is not in a non-empty
\* allow-list is answered 403; the step of either changes no session, entry
\* or batch record and issues no external call
C18_AuthGate ==
  [][(RequestServed /\ ~Falsy(env.secretToken)) =>
       LET req == request'
           token == OrElse(req.token, req.xAuthToken)
           domain == OrElse(req.domain, req.xBitrixDomain)
       IN /\ req.op \in {"upload", "process", "preview", "execute", "undo"}
          /\ token # env.secretToken =>
               reply'.status = 401 /\ PipelineUntouched
          /\ (/\ token = env.secretToken
              /\ env.allowedDomains # <<>>
              /\ domain \notin Range(env.allowedDomains)) =>
               reply'.status = 403 /\ PipelineUntouched]_vars

\* An execute request with the secret as token and a domain outside the
\* allow-list was answered 403 while the session was in preview with its
\* entries stored: the session is still in preview and no execution exists
C18_Witness ==
  /\ request.op = "execute"
  /\ request.xAuthToken = env.secretToken
  /\ request.token = Null
  /\ request.xBitrixDomain = "d2"
  /\ env.allowedDomains = <<"d1">>
  /\ reply.status = 403
  /\ sessions # <<>>
  /\ sessions[1].status = "preview"
  /\ recordResults # <<>>
  /\ execTasks = <<>>
  /\ executionBatches = <<>>

----------------------------------------------------------------------------
(* C19 *)

\* The status of the entries a report kind lists
KindStatus(type) ==
  IF type = "not-found" THEN "not_found"
  ELSE IF type = "duplicates" THEN "duplicate"
  ELSE "error"

EntriesOfKind(sessionId, type) ==
  {j \in DOMAIN recordResults :
     /\ recordResults[j].sessionId = sessionId
     /\ recordResults[j].status = KindStatus(type)}

\* C19: a download for an existing session and a report kind is answered
\* 404 when the session has no entry of the kind and 200 when it has one
C19_Download ==
  [][\A s \in DOMAIN sessions, type \in ReportTypes :
       Download(s, type) =>
         reply'.status = IF EntriesOfKind(s, type) = {} THEN 404 ELSE 200]_vars

----------------------------------------------------------------------------
(* C20 *)

\* A step that serves a preview edit request
PreviewEdited == edits' = edits + 1

\* C20: a preview edit request leaves the status, error message, external
\* identifier, current value, row index and session of every entry as they
\* were
C20_EditFrame ==
  [][PreviewEdited =>
       /\ DOMAIN recordResults' = DOMAIN recordResults
       /\ \A j \in DOMAIN recordResults :
            /\ recordResults'[j].status = recordResults[j].status
            /\ recordResults'[j].errorMessage = recordResults[j].errorMessage
            /\ recordResults'[j].bitrixId = recordResults[j].bitrixId
            /\ recordResults'[j].currentValue = recordResults[j].currentValue
            /\ recordResults'[j].rowIndex = recordResults[j].rowIndex
            /\ recordResults'[j].sessionId = recordResults[j].sessionId]_vars

----------------------------------------------------------------------------
(* C21 *)

\* The entries and batch records that do not belong to session s are what
\* they were
OthersUntouched(s) ==
  /\ \A j \in DOMAIN recordResults :
       recordResults[j].sessionId # s =>
         /\ j \in DOMAIN recordResults'
         /\ recordResults'[j] = recordResults[j]
  /\ \A j \in DOMAIN recordResults' :
       j \notin DOMAIN recordResults => recordResults'[j].sessionId = s
  /\ \A b \in DOMAIN executionBatches :
       executionBatches[b].sessionId # s =>
         /\ b \in DOMAIN executionBatches'
         /\ executionBatches'[b] = executionBatches[b]
  /\ \A b \in DOMAIN executionBatches' :
       b \notin DOMAIN executionBatches => executionBatches'[b].sessionId = s

\* C21: a preview edit addressed to a session, and every step of an
\* execution or an undo of a session, leaves the entries and batch records
\* of the other sessions as they were
C21_Isolation ==
  [][/\ \A s \in DOMAIN sessions, u \in UndoPatches :
          PatchPreview(s, u) => OthersUntouched(s)
     /\ \A t \in DOMAIN execTasks :
          execTasks'[t] # execTasks[t] => OthersUntouched(execTasks[t].sessionId)
     /\ \A t \in DOMAIN undoTasks :
          undoTasks'[t] # undoTasks[t] => OthersUntouched(undoTasks[t].sessionId)]_vars

----------------------------------------------------------------------------
(* C22 *)

\* The store holds the batch records of the whole pass: one per batch of
\* the partition, with the batch's entries
RecordsOfPass(task) ==
  LET bs == BatchesOf(task.sessionId)
  IN /\ Len(bs) = (Len(task.results) + batchSize - 1) \div batchSize
     /\ Len(bs) = Len(task.batches)
     /\ \A b \in DOMAIN bs : bs[b].recordIds = task.batches[b]

\* C22: a step of a pass that issues a bulk call starts from a store that
\* holds the batch records of all ceil(N/50) batches of the pass, and no
\* step removes a batch record
C22_RecordsBeforeCalls ==
  [][/\ \A t \in DOMAIN execTasks :
          (BatchStep(t) /\ calls' # <<>>) => RecordsOfPass(execTasks[t])
     /\ Len(executionBatches') >= Len(executionBatches)
     /\ \A b \in DOMAIN executionBatches :
          executionBatches'[b].recordIds = executionBatches[b].recordIds]_vars

\* The first bulk call of a pass over three batches has been issued and has
\* failed; the store holds the records of the three batches
C22_Witness ==
  \E t \in DOMAIN execTasks :
    /\ execTasks[t].pc = "batch"
    /\ execTasks[t].b = 2
    /\ Len(execTasks[t].batches) = 3
    /\ calls # <<>>
    /\ calls[1].thrown
    /\ Len(BatchesOf(execTasks[t].sessionId)) = 3
    /\ BatchesOf(execTasks[t].sessionId)[3].recordIds = execTasks[t].batches[3]

----------------------------------------------------------------------------
(* C23 *)

\* The entries of the batch a pass is at whose identifier is of a kind:
\* companies when the identifier starts with C, contacts otherwise
KindEntries(task, company) ==
  Ids(SelectSeq(task.results,
        LAMBDA r : /\ Includes(task.batches[task.b], r.id)
                   /\ r.bitrixId # Null
                   /\ StartsWithC(r.bitrixId) = company))

KindMethod(company) == IF company THEN "crm.company.batch" ELSE "crm.contact.batch"

\* C23: the step that works through a batch issues, for each kind, one bulk
\* call carrying the batch's entries of the kind when there are any, and no
\* call when there are none, whatever the outcome of the other kind's call
C23_OneCallPerKind ==
  [][\A t \in DOMAIN execTasks :
       BatchStep(t) =>
         \A company \in BOOLEAN :
           LET entries == KindEntries(execTasks[t], company)
               issued == {c \in DOMAIN calls' :
                            calls'[c].method = KindMethod(company)}
           IN /\ Cardinality(issued) = IF entries = <<>> THEN 0 ELSE 1
              /\ \A c \in issued : calls'[c].ids = entries]_vars

----------------------------------------------------------------------------
(* C24 *)

\* A response with a success status whose body reports an error
BodyError(resp) == resp.ok /\ ~resp.hasResult

\* C24: a call whose response has a non-success status, or a success status
\* and a body that reports an error, throws; the entries of a batch with
\* such a bulk call end with status "error"
C24_BodyErrorFails ==
  [][\A t \in DOMAIN execTasks, rc \in BatchResponses, ro \in BatchResponses :
       (ExecBatch(t, rc, ro) /\ (~rc.ok \/ ~ro.ok \/ BodyError(rc) \/ BodyError(ro))) =>
         /\ callBitrixAPI(rc).thrown \/ callBitrixAPI(ro).thrown
         /\ \A id \in Range(execTasks[t].batches[execTasks[t].b]) :
              recordResults'[id].status = "error"]_vars

----------------------------------------------------------------------------
(* C25 *)

\* The change of operation o is in the files
Present(o) ==
  LET op == fileOps[o]
  IN IF op.kind = "createRecordResult"
       THEN \E j \in DOMAIN resultsFile : resultsFile[j].id = NewId(o)
     ELSE IF op.kind = "updateRecordResult"
       THEN \A j \in DOMAIN resultsFile :
              resultsFile[j].id = op.id =>
                \A f \in DOMAIN op.data : resultsFile[j][f] = op.data[f]
     ELSE IF op.kind = "updateRecordResults"
       THEN \A u \in DOMAIN op.data :
              \A j \in DOMAIN resultsFile :
                resultsFile[j].id = op.data[u].id =>
                  \A f \in DOMAIN op.data[u].data :
                    resultsFile[j][f] = op.data[u].data[f]
     ELSE sessionsFile[op.id].status = op.data.status

\* C25: once the store operations that tasks of different sessions and a
\* preview edit have started are all finished, the files hold every entry
\* that was created and every change that was made
C25_NoLostUpdate ==
  (\A o \in DOMAIN fileOps : fileOps[o].pc = "done") =>
    \A o \in DOMAIN fileOps : Present(o)

----------------------------------------------------------------------------
(* C26 *)

\* The start of the last call, 0 before the first
LastStart == IF starts = <<>> THEN 0 ELSE Last(starts)

\* C26: a caller that enters the rate limiter when minInterval or more has
\* elapsed since the start of the last call starts its call in the same
\* step; one that enters earlier sleeps for minInterval less the elapsed
\* time, and starts its call when that timer fires
C26_NoExtraDelay ==
  /\ [](lastCall = LastStart)
  /\ [][\A c \in DOMAIN callers :
          /\ (callers[c].pc = "idle" /\ callers'[c].pc # "idle") =>
               IF now - LastStart >= minInterval
                 THEN /\ callers'[c].pc = "fetching"
                      /\ Last(starts') = now
                      /\ Len(starts') = Len(starts) + 1
                 ELSE /\ callers'[c].pc = "sleeping"
                      /\ callers'[c].wakeAt = now + (minInterval - (now - LastStart))
                      /\ starts' = starts
          /\ callers[c].pc = "sleeping" =>
               /\ now < callers[c].wakeAt + TickMs
               /\ callers'[c].pc # "sleeping" =>
                    /\ now >= callers[c].wakeAt
                    /\ callers'[c].pc = "fetching"
                    /\ Last(starts') = now
                    /\ Len(starts') = Len(starts) + 1]_vars

\* The second call started minInterval after the first, and a third call,
\* which entered later than minInterval after the second, has started
C26_Witness ==
  /\ Len(starts) >= 3
  /\ starts[2] = starts[1] + minInterval
  /\ starts[3] > starts[2] + minInterval
  /\ \E c \in DOMAIN callers : callers[c].pc = "fetching"

----------------------------------------------------------------------------
(* C27 *)

\* C27: the processing-status query of a session reports processedRows of
\* at most totalRows and a progress of at most 100
C27_ProgressBounded ==
  \A s \in DOMAIN sessions :
    LET st == getProcessingStatus(s)
    IN /\ st.processedRows <= st.totalRows
       /\ st.progress.num <= 100 * st.progress.den

----------------------------------------------------------------------------
(* C28 *)

\* C28: no bulk call of an execution pass carries an entry that an earlier
\* pass has left with status "completed"
C28_SentOnce ==
  [][\A t \in DOMAIN execTasks :
       BatchStep(t) =>
         \A c \in DOMAIN calls' :
           \A id \in Range(calls'[c].ids) :
             recordResults[id].status # "completed"]_vars

----------------------------------------------------------------------------
(* C29 *)

\* C29: the bulk calls of the step that works through a batch carry only
\* entries that have an external identifier, in the store and in the pass's
\* copy of them
C29_NoNullIdentifier ==
  [][\A t \in DOMAIN execTasks :
       BatchStep(t) =>
         \A c \in DOMAIN calls' :
           \A id \in Range(calls'[c].ids) :
             /\ recordResults[id].bitrixId # Null
             /\ \A j \in DOMAIN execTasks[t].results :
                  execTasks[t].results[j].id = id =>
                    execTasks[t].results[j].bitrixId # Null]_vars

\* An execution of an explicit subset has worked through a batch that held
\* an entry without identifier next to a matched one: the step issued no
\* call and left both entries with status "error"
C29_Witness ==
  \E t \in DOMAIN execTasks :
    LET task == execTasks[t]
    IN /\ task.recordIds.given
       /\ task.b = 2
       /\ calls = <<>>
       /\ \E j \in DOMAIN task.results, k \in DOMAIN task.results :
            /\ task.results[j].bitrixId = Null
            /\ task.results[k].bitrixId # Null
            /\ recordResults[task.results[j].id].status = "error"
            /\ recordResults[task.results[k].id].status = "error"

----------------------------------------------------------------------------
(* C30 *)

\* A pass is at a row of its sheet or past the last, and has ended only
\* there
C30_Inv ==
  \A t \in DOMAIN procTasks :
    /\ procTasks[t].i \in 0..Len(RowsOf(procTasks[t]))
    /\ procTasks[t].pc = "done" => procTasks[t].i = Len(RowsOf(procTasks[t]))

\* A step moves a pass by at most one row and never back, issues at most
\* one search, for the row the pass is at, and ends the pass only after the
\* last row, setting the status "preview" or "error"; a pass that has ended
\* does nothing more
C30_Act ==
  \A t \in DOMAIN procTasks :
    LET task == procTasks[t]
    IN /\ procTasks'[t].i \in {task.i, task.i + 1}
       /\ Probed(t) =>
            /\ Len(procTasks'[t].probes) = Len(ProbesSoFar(task)) + 1
            /\ Last(procTasks'[t].probes).row = task.i
            /\ \A u \in DOMAIN procTasks : u # t => procTasks'[u] = procTasks[u]
       /\ (task.pc = "loop" /\ procTasks'[t].pc = "done") =>
            /\ task.i = Len(RowsOf(task))
            /\ sessions'[task.sessionId].status \in {"preview", "error"}
       /\ task.pc = "done" => procTasks'[t] = task

PassStarted(t) == Len(procTasks) >= t

PassEnded(t) ==
  /\ Len(procTasks) >= t
  /\ procTasks[t].pc = "done"
  /\ sessions[procTasks[t].sessionId].status \in {"preview", "error"}

\* C30: a matching pass whose searches all return goes through the rows of
\* its sheet once each, in increasing order, with one search at a time, and
\* ends with the session status "preview" or "error"
C30_PassTerminates ==
  /\ []C30_Inv
  /\ [][C30_Act]_vars
  /\ \A t \in 1..MaxPasses : PassStarted(t) ~> PassEnded(t)

\* A pass over both target types and two key columns has ended in preview
\* after a search that threw and one that matched, with the entries of both
\* rows stored
C30_Witness ==
  \E t \in DOMAIN procTasks :
    LET task == procTasks[t]
    IN /\ PassEnded(t)
       /\ task.targetType = "both"
       /\ task.keyColumns = <<"EMAIL", "PHONE">>
       /\ task.i = Len(RowsOf(task))
       /\ \A r \in 0..(Len(RowsOf(task)) - 1) :
            \E j \in DOMAIN recordResults : recordResults[j].rowIndex = r
       /\ sessions[task.sessionId].status = "preview"

=============================================================================
